---- MODULE Spec2Model ----
(***************************************************************************)
(* The VM supervisor of hugelgupf/vmtest, package qemu (src/qemu/qemu.go): *)
(* Options.Start, VM.Wait, VM.Kill, the task group, the per-task           *)
(* Notifications and the expect console, as a state machine.               *)
(*                                                                         *)
(* One behaviour is one test program: a configuration (the tasks given     *)
(* with WithTask, whether WithVMTimeout was given), one call of Start, and *)
(* then the caller's calls of Console.Expect*, Kill and Wait, interleaved  *)
(* with the task goroutines, the QEMU child process and the context's      *)
(* deadline timer.                                                         *)
(*                                                                         *)
(* Further specifications over the same variables: EvSpec, a VM with one   *)
(* event channel (EventChannel, EventChannelCallback); OptSpec, OptionsFor *)
(* with its configurators, Options.Cmdline and the first steps of Start;   *)
(* AllocSpec, one IDAllocator.                                             *)
(***************************************************************************)
EXTENDS Naturals, Sequences, FiniteSets

\* ------------------------------------------------------------- bounds

\* The largest number of tasks registered with WithTask.
MaxTasks == 2
\* The largest number of bytes the child writes to its console.
MaxOut == 2
\* The number of bytes the console holds unread: the kernel's buffer of the
\* PTY together with the pass-through pipe of the expect library.
BufCap == 1
\* The largest number of VM.Wait calls the caller makes.
MaxWaits == 2
\* The largest number of Console.Expect* calls the caller makes.
MaxExpects == 1
\* The largest number of lines the guest writes to its event channel.
MaxLines == 3
\* The largest number of configurators given to OptionsFor.
MaxFns == 2
\* The largest length of the QEMU command string.
MaxCmdLen == 3
\* The largest number of Options.Cmdline calls the caller makes.
MaxCmdlines == 2
\* The largest length of a prefix given to IDAllocator.ID.
MaxPrefixLen == 2
\* The largest number of IDAllocator.ID calls.
MaxIDs == 3
MaxDevFns == 2
MaxCalls == 2
\* The largest number of VMs that call NewVM on one InterVM network.
MaxVMs == 3
\* The largest number of records the guest program writes to its emitter.
MaxRecords == 3

\* ------------------------------------------------------------- values

\* Go's nil error.
Nil == "nil"

\* The tasks of the repository's tests, by what they block on:
\*   ctx      <-ctx.Done(); flag = true; return nil
\*   ctxErr   <-ctx.Done(); return an error
\*   exited   err, ok := <-n.VMExited; return nil
\*   started  WaitVMStarted(func: flag = true; return nil)
\*   serial   io.ReadAll(r), r the read end of an io.Pipe whose write end
\*            was given to WithSerialOutput
\*   file     io.ReadAll(r), r the read end of an os.Pipe whose write end
\*            was given to Options.AddFile
TaskKinds == {"ctx", "ctxErr", "exited", "started", "serial", "file"}

\* The order in which Init lists the kinds of a configuration (below).
KindRank(k) ==
    CASE k = "ctx" -> 0 [] k = "ctxErr" -> 1 [] k = "exited" -> 2
      [] k = "started" -> 3 [] k = "serial" -> 4 [] k = "file" -> 5

\* The patterns of the caller's Expect calls: one the child's output
\* matches, and one it never matches.
Patterns == {"a", "never"}

VARIABLES
    tasks,        \* Options.Tasks: the kind of each registered task
    vmTimeout,    \* Options.VMTimeout != 0
    outPlan,      \* bytes the guest program writes to its console before
                  \* it exits (helloworld -n N)
    pc,           \* where the caller (the test's goroutine) is
    tstate,       \* each task goroutine: "idle", "blocked" or "done"; the
                  \* event channel's reader also "reading" and "sending"
    flag,         \* each task's side effect (taskGotCanceled, taskRan)
    wgErr,        \* vm.wg: the first non-nil error a task returned
    ctxDone,      \* the task context is cancelled or past its deadline
    nStarted,     \* per task: Notifications.VMStarted is closed
    nExited,      \* per task: Notifications.VMExited: its buffer, whether
                  \* it is closed, and every value sent on it so far
    child,        \* the QEMU subprocess: "none", "running", "exited"
    childStatus,  \* its wait status: "none", "ok", "fail", "killed"
    cmdWaited,    \* cmd.Wait has returned once (cmd.ProcessState is set)
    killCalled,   \* the caller has called VM.Kill
    ttyParent,    \* the parent holds the child side of the console PTY
    consoleClosed,\* Console.Close has run (ptm and pass-through closed)
    sinksClosed,  \* the serial sinks (expect.WithCloser) are closed
    extraOpen,    \* the parent holds the files of Options.ExtraFiles
    buf,          \* bytes the child wrote that the console has not read
    written,      \* bytes the child wrote in all
    expectPat,    \* the pattern of the caller's pending Expect call
    expectRes,    \* results of the Expect calls that returned
    waitCalls,    \* Wait calls begun
    waitErr,      \* Wait's local err
    waitVals,     \* the pending Wait's cmd.Wait error and ExpectEOF error
    waitLog,      \* per returned Wait: [child, console, tasks, ret]
    startErr,     \* what Start returned: "none", Nil (a VM) or the error
    tret,         \* per task: what it returned, "none" while it runs
    script,       \* the lines the guest program writes to its event
                  \* channel: "ev" (a guestevent), "done" or "junk" (not
                  \* JSON); an event is named by its position in script
    emitted,      \* lines the guest has written so far
    rdpos,        \* lines the host's reader has scanned so far
    events,       \* the host's event channel: how often close(events) was
                  \* executed, and whether a send found it closed
    gotDone,      \* the reader's gotDone
    delivered,    \* the events received from the channel, in order
    epc,          \* the guest program using its emitter: where it is, and
                  \* the number of Write calls it has made
    pipe,         \* the emitter's io.Pipe: the record a Write is offering,
                  \* and whether the write end is closed
    fwd,          \* the emitter's goroutine: where it is, and the record in
                  \* its hands
    serial,       \* the writes on the virtio-serial device, in order
    arch,         \* the guest architecture OptionsFor is called with
    env,          \* the VMTEST_* environment variables
    fns,          \* the configurators given to OptionsFor, in order
    grouped,      \* the first grouped of them are given as one All(...)
    opts,         \* the Options under construction, then constructed
    fnpos,        \* OptionsFor's loop: configurators applied so far
    applied,      \* the configurators invoked so far (by position in fns)
    optErr,       \* OptionsFor's error: "none" until it has returned
    argvLog,      \* the results of the Options.Cmdline calls
    ncalls,       \* the OptionsFor calls begun so far
    idx,          \* IDAllocator.idx: the next index of each prefix
    idx0,         \* idx before the first of the logged ID calls
    idLog,        \* the ID calls so far: prefix given, id returned
    listener,     \* the listener given to ServeHTTP: "open" or "closed"
    hostnet,      \* a VM on a host network: where its goroutine is, the
                  \* Fn IPv4HostNetwork returned, the Options and the
                  \* error its OptionsFor returned
    numVMs,       \* InterVM.numVMs
    vms           \* per VM of an InterVM network: where its goroutine is,
                  \* the Opts it gives to NewVM, the Fn NewVM returned and
                  \* the Options its OptionsFor returned

config  == <<tasks, vmTimeout, outPlan>>
taskv   == <<tstate, flag, wgErr, tret>>
notifv  == <<nStarted, nExited>>
childv  == <<child, childStatus, cmdWaited, killCalled>>
consv   == <<ttyParent, consoleClosed, sinksClosed, extraOpen, buf, written>>
expv    == <<expectPat, expectRes>>
waitv   == <<waitCalls, waitErr, waitVals, waitLog>>
evv     == <<script, emitted, rdpos, events, gotDone, delivered, epc, pipe,
             fwd, serial>>
optv    == <<arch, env, fns, grouped, opts, fnpos, applied, optErr, argvLog,
             ncalls>>
allocv  == <<idx, idx0, idLog>>
netv    == <<numVMs, vms, hostnet>>
vars    == <<config, pc, taskv, ctxDone, notifv, childv, consv, expv, waitv,
             startErr, evv, optv, allocv, listener, netv>>

T == DOMAIN tasks

\* ------------------------------------------------------------- Init

\* Sequences of kinds of length at most MaxTasks, listed in one order per
\* multiset: the loops over Options.Tasks and vm.notifs (Start's loop, the
\* broadcasts) are modelled as one step each, and the tasks do not name one
\* another, so a permutation of Options.Tasks permutes the behaviours.
Configs ==
    UNION { { s \in [1..n -> TaskKinds] :
                \A i \in 1..n, j \in 1..n :
                    i < j => KindRank(s[i]) <= KindRank(s[j]) }
            : n \in 0..MaxTasks }

\* The capacity of VMExited: make(chan error, 1).
VMExitedCap == 1

\* newNotifications: VMStarted open, VMExited empty with capacity 1.
newNotifications == [buf |-> <<>>, closed |-> FALSE, sent |-> <<>>]

\* make(chan T): open, nothing sent.
newEvents == [closes |-> 0, lateSend |-> FALSE]

\* NewIDAllocator(): no prefix has an index.
NewIDAllocator ==
    /\ idx = <<>>
    /\ idx0 = <<>>
    /\ idLog = <<>>

\* The n IPv4HostNetwork gives to nthIP.
DHCPStartN == 8

\* No InterVM network and no host network exist.
NoNetwork ==
    /\ numVMs = 0
    /\ vms = <<>>
    /\ hostnet = [pc |-> "none", fn |-> <<>>, opts |-> <<>>, err |-> Nil]

\* The Options that OptionsFor seeds from the environment e.  A string is a
\* sequence of symbols, a literal such as "-nographic" a string of one
\* symbol.
SeedOptions(e) ==
    [QEMUCommand |-> e.QEMU,
     Kernel      |-> e.KERNEL,
     Initramfs   |-> e.INITRAMFS,
     KernelArgs  |-> <<>>,
     QEMUArgs    |-> << <<"-nographic">> >>,
     ExtraFiles  |-> <<>>,
     Tasks       |-> <<>>]

\* The environment of the tests: VMTEST_QEMU names a binary, the rest is
\* cleared.
TestEnv ==
    [QEMU |-> <<"q">>, KERNEL |-> <<>>, INITRAMFS |-> <<>>,
     QEMU_APPEND |-> <<>>, KERNEL_APPEND |-> <<>>]

\* SupportedGuestArches
SupportedGuestArches == {"x86_64", "i386", "aarch64", "arm"}

\* A strings.Fields that does not split.
FieldsWhole(s) == IF s = <<>> THEN <<>> ELSE <<s>>

\* strings.Fields(s): the maximal runs of non-space symbols of s, scanned
\* from the left.
RECURSIVE Fields(_)
Fields(s) ==
    IF s = <<>> THEN <<>>
    ELSE IF Head(s) = " " THEN Fields(Tail(s))
    ELSE LET ends == { k \in 1..Len(s) : s[k] = " " }
             n == IF ends = {} THEN Len(s) + 1
                  ELSE CHOOSE k \in ends : \A j \in ends : k <= j
         IN  <<SubSeq(s, 1, n - 1)>> \o Fields(SubSeq(s, n, Len(s)))

\* Options.AppendKernel(t)
AppendKernel(o, t) ==
    [o EXCEPT !.KernelArgs = IF Len(@) = 0 THEN t ELSE @ \o <<" ">> \o t]

\* Options.AppendQEMU(s...)
AppendQEMU(o, s) == [o EXCEPT !.QEMUArgs = @ \o s]

\* A Cmdline without the kernel-args check.
CmdlineNoCheck(o) ==
    [args |-> Fields(o.QEMUCommand) \o o.QEMUArgs
              \o (IF Len(o.Kernel) > 0 THEN << <<"-kernel">>, o.Kernel >> ELSE <<>>)
              \o (IF Len(o.KernelArgs) # 0
                  THEN << <<"-append">>, o.KernelArgs >> ELSE <<>>)
              \o (IF Len(o.Initramfs) # 0
                  THEN << <<"-initrd">>, o.Initramfs >> ELSE <<>>),
     err |-> Nil]

\* Options.Cmdline: the argv and the error.
Cmdline(o) ==
    LET a1 == Fields(o.QEMUCommand) \o o.QEMUArgs
        a2 == IF Len(o.Kernel) > 0
              THEN a1 \o << <<"-kernel">>, o.Kernel >>
                      \o (IF Len(o.KernelArgs) # 0
                          THEN << <<"-append">>, o.KernelArgs >> ELSE <<>>)
              ELSE a1
        a3 == IF Len(o.Initramfs) # 0
              THEN a2 \o << <<"-initrd">>, o.Initramfs >> ELSE a2
    IN  IF Len(o.Kernel) = 0 /\ Len(o.KernelArgs) # 0
        THEN [args |-> <<>>, err |-> "kernelRequiredForArgs"]
        ELSE [args |-> a3, err |-> Nil]

\* Nothing of the VM exists yet: no task, no child, no console.
NotStarted ==
    /\ tstate = [i \in T |-> "idle"]
    /\ tret = [i \in T |-> "none"]
    /\ emitted = 0
    /\ rdpos = 0
    /\ events = newEvents
    /\ gotDone = FALSE
    /\ delivered = <<>>
    /\ epc = [pc |-> "idle", n |-> 0]
    /\ pipe = [data |-> <<>>, closed |-> FALSE]
    /\ fwd = [pc |-> "scan", rec |-> 0]
    /\ serial = <<>>
    /\ flag = [i \in T |-> FALSE]
    /\ wgErr = Nil
    /\ ctxDone = FALSE
    /\ nStarted = [i \in T |-> FALSE]
    /\ nExited = [i \in T |-> newNotifications]
    /\ child = "none"
    /\ childStatus = "none"
    /\ cmdWaited = FALSE
    /\ killCalled = FALSE
    /\ ttyParent = FALSE
    /\ consoleClosed = FALSE
    /\ sinksClosed = FALSE
    /\ extraOpen = TRUE
    /\ buf = 0
    /\ written = 0
    /\ expectPat = "none"
    /\ expectRes = <<>>
    /\ waitCalls = 0
    /\ waitErr = Nil
    /\ waitVals = [child |-> Nil, console |-> Nil]
    /\ waitLog = <<>>
    /\ startErr = "none"
    /\ listener = "open"

\* The state before Start: OptionsFor(arch) has returned the Options.
Configured ==
    /\ pc = "configured"
    /\ NotStarted
    /\ arch = "x86_64"
    /\ env = TestEnv
    /\ fns = <<>>
    /\ grouped = 0
    /\ opts = SeedOptions(TestEnv)
    /\ fnpos = 0
    /\ applied = <<>>
    /\ optErr = Nil
    /\ argvLog = <<>>
    /\ ncalls = 1

\* A VM without event channels, with any tasks, timeout and console output.
Init ==
    /\ tasks \in Configs
    /\ vmTimeout \in BOOLEAN
    /\ outPlan \in 0..MaxOut
    /\ script = <<>>
    /\ Configured
    /\ NewIDAllocator
    /\ NoNetwork

\* ------------------------------------------------------------- helpers

\* A Wait that does not block on the task group.
NoJoin == TRUE

\* vm.wg.Wait() returns: every goroutine of the errgroup has returned.
TasksJoined == \A i \in T : tstate[i] = "done"

\* errgroup.Group: the first non-nil error a task returns is kept.
GroupErr(old, e) == IF old = Nil THEN e ELSE old

\* A merge that lets a later error replace an earlier one.
MergeErrLast(err, next) == IF next # Nil THEN next ELSE err

\* Wait's "if cerr != nil && err == nil { err = cerr }" and the same for werr.
MergeErr(err, next) == IF next # Nil /\ err = Nil THEN next ELSE err

\* cmd.Wait()'s error for a wait status: nil for exit status 0, an
\* *exec.ExitError otherwise (for SIGKILL one whose WaitStatus.Signal() is
\* SIGKILL).
ExitErr(status) ==
    CASE status = "ok" -> Nil
      [] status = "fail" -> "exit1"
      [] status = "killed" -> "killed"

\* The caller's position between calls on the VM handle.
Idle == IF waitCalls = 0 THEN "running" ELSE "waited"

\* An end of the stream that does not wait for the buffered bytes.
ConsoleEOFEarly == ~ttyParent /\ child # "running"

\* A read of the console's parent side finds the end of the stream: nothing
\* is buffered and nobody holds the child side any more.
ConsoleEOF == buf = 0 /\ ~ttyParent /\ child # "running"

\* io.ReadAll(r) of task i finds the end of its pipe: every holder of the
\* write end has closed it.
PipeEOF(i) ==
    IF tasks[i] = "serial" THEN sinksClosed
    ELSE ~extraOpen /\ child # "running"

\* A Start that forgets c.Tty().Close().
ParentTtyLeftOpen == TRUE

\* What is left of the parent's reference to the child side of the console
\* PTY when Start returns a VM: c.Tty().Close().
ParentTtyAfterStart == FALSE

\* ------------------------------------------------------------- Start

\* Options.Start up to the spawn: the console is created (the parent holds
\* both sides of the PTY), the context is derived, every task is started in
\* its goroutine with its own Notifications.
StartTasks ==
    /\ pc = "configured"
    /\ Cmdline(opts).err = Nil
    /\ pc' = "start_spawn"
    /\ ttyParent' = TRUE
    /\ tstate' = [i \in T |-> "blocked"]
    /\ nStarted' = [i \in T |-> FALSE]
    /\ nExited' = [i \in T |-> newNotifications]
    /\ UNCHANGED <<config, netv, listener, allocv, evv, optv, flag, wgErr, tret, ctxDone, childv,
                   consoleClosed, sinksClosed, extraOpen, buf, written, expv,
                   waitv, startErr>>

\* A Start that does not cancel the context when cmd.Start fails.
SpawnFailedNoCancel == UNCHANGED <<ctxDone, notifv, consv>>

\* What Start does for the tasks between a failed cmd.Start and the join.
SpawnFailed ==
    /\ ctxDone' = TRUE
    /\ UNCHANGED <<notifv, consv>>

\* cmd.Start fails (the command does not exist, or the context is already
\* done): Start cancels and goes on to wait for the tasks.
StartSpawnFails ==
    /\ pc = "start_spawn"
    /\ pc' = "start_join"
    /\ SpawnFailed
    /\ UNCHANGED <<config, netv, listener, allocv, evv, optv, taskv, childv, expv, waitv, startErr>>

\* _ = vm.wg.Wait(); return nil, err
StartJoin ==
    /\ pc = "start_join"
    /\ TasksJoined
    /\ pc' = "start_failed"
    /\ startErr' = "spawnErr"
    /\ UNCHANGED <<config, netv, listener, allocv, evv, optv, taskv, ctxDone, notifv, childv, consv, expv, waitv>>

\* A Start that never signals VMStarted.
VMStartedSkipped == UNCHANGED nStarted

\* vm.notifs.VMStarted(): every task's VMStarted is closed.
VMStarted == nStarted' = [i \in T |-> TRUE]

\* cmd.Start succeeds: VMStarted is broadcast, the parent closes the child
\* side of the PTY, Start returns the VM.
StartSpawnOK ==
    /\ pc = "start_spawn"
    /\ ~ctxDone
    /\ pc' = "running"
    /\ child' = "running"
    /\ VMStarted
    /\ ttyParent' = ParentTtyAfterStart
    /\ startErr' = Nil
    /\ UNCHANGED <<config, netv, listener, allocv, evv, optv, taskv, ctxDone, nExited, childStatus, cmdWaited,
                   killCalled, consoleClosed, sinksClosed, extraOpen, buf,
                   written, expv, waitv>>

\* ------------------------------------------------------------- context, child

\* context.WithTimeout: the deadline passes.
Timeout ==
    /\ vmTimeout
    /\ pc # "configured"
    /\ ~ctxDone
    /\ ctxDone' = TRUE
    /\ UNCHANGED <<config, netv, listener, allocv, evv, optv, pc, taskv, notifv, childv, consv, expv, waitv, startErr>>

\* exec.Command in place of exec.CommandContext: the context kills nothing.
NeverKillOnCtxDone == FALSE

\* exec.CommandContext(ctx, ...): the command is killed once ctx is done.
KillOnCtxDone == ctxDone /\ child = "running"

\* The context is done while the child runs, and the child is killed with
\* SIGKILL.
CtxKill ==
    /\ KillOnCtxDone
    /\ child' = "exited"
    /\ childStatus' = "killed"
    /\ UNCHANGED <<config, netv, listener, allocv, evv, optv, pc, taskv, ctxDone, notifv, cmdWaited, killCalled,
                   consv, expv, waitv, startErr>>

\* The child writes a byte to its stdout, the child side of the PTY; the
\* write blocks while the console is full.
ChildWrite ==
    /\ child = "running"
    /\ written < outPlan
    /\ buf < BufCap
    /\ written' = written + 1
    /\ buf' = buf + 1
    /\ UNCHANGED <<config, netv, listener, allocv, evv, optv, pc, taskv, ctxDone, notifv, childv, ttyParent,
                   consoleClosed, sinksClosed, extraOpen, expv, waitv, startErr>>

\* The child exits by itself, with status 0 or not, once it has written its
\* output.
ChildExit ==
    /\ child = "running"
    /\ written = outPlan
    /\ child' = "exited"
    /\ \E s \in {"ok", "fail"} : childStatus' = s
    /\ UNCHANGED <<config, netv, listener, allocv, evv, optv, pc, taskv, ctxDone, notifv, cmdWaited, killCalled,
                   consv, expv, waitv, startErr>>

\* VM.Kill: v.cmd.Process.Kill().
Kill ==
    /\ pc = "running"
    /\ ~killCalled
    /\ killCalled' = TRUE
    /\ IF child = "running"
       THEN child' = "exited" /\ childStatus' = "killed"
       ELSE UNCHANGED <<child, childStatus>>
    /\ UNCHANGED <<config, netv, listener, allocv, evv, optv, pc, taskv, ctxDone, notifv, cmdWaited, consv, expv,
                   waitv, startErr>>

\* ------------------------------------------------------------- Console.Expect*

\* The caller calls vm.Console.ExpectString(p).
ExpectCall ==
    /\ pc \in {"running", "waited"}
    /\ Len(expectRes) < MaxExpects
    /\ pc' = "expect"
    /\ \E p \in Patterns : expectPat' = p
    /\ UNCHANGED <<config, netv, listener, allocv, evv, optv, taskv, ctxDone, notifv, childv, consv, expectRes,
                   waitv, startErr>>

\* A write to the serial sinks goes on: the sink of a LogSerialByLine task
\* is the write end of an io.Pipe, and a write to it blocks until the task's
\* scanner reads.
SinkTakes == \A i \in T : tasks[i] = "logline" => tstate[i] = "reading"

\* Expect reads one byte of the child's output and writes it to the sinks;
\* a byte the pattern matches ends the call.
ExpectRead ==
    /\ pc = "expect"
    /\ ~consoleClosed
    /\ buf > 0
    /\ SinkTakes
    /\ buf' = buf - 1
    /\ IF expectPat = "a"
       THEN /\ pc' = Idle
            /\ expectRes' = Append(expectRes, "match")
            /\ expectPat' = "none"
       ELSE UNCHANGED <<pc, expv>>
    /\ UNCHANGED <<config, netv, listener, allocv, evv, optv, taskv, ctxDone, notifv, childv, ttyParent,
                   consoleClosed, sinksClosed, extraOpen, written, waitv, startErr>>

\* Expect's read fails: the stream has ended, or the console is closed.
ExpectEnd ==
    /\ pc = "expect"
    /\ ConsoleEOF \/ consoleClosed
    /\ pc' = Idle
    /\ expectRes' = Append(expectRes, "error")
    /\ expectPat' = "none"
    /\ UNCHANGED <<config, netv, listener, allocv, evv, optv, taskv, ctxDone, notifv, childv, consv, waitv, startErr>>

\* ------------------------------------------------------------- Wait

\* The caller calls vm.Wait().
WaitCall ==
    /\ pc \in {"running", "waited"}
    /\ waitCalls < MaxWaits
    /\ pc' = "wait_child"
    /\ waitCalls' = waitCalls + 1
    /\ waitErr' = Nil
    /\ waitVals' = [child |-> Nil, console |-> Nil]
    /\ UNCHANGED <<config, netv, listener, allocv, evv, optv, taskv, ctxDone, notifv, childv, consv, expv, waitLog,
                   startErr>>

\* notifications.VMExited(err): "m.VMExited <- err" panics on a closed
\* channel.
VMExitedPanics == \E i \in T : nExited[i].closed

\* A send on a VMExited made without a buffer: it goes on only when the
\* task is receiving.
SendUnbuffered(i) ==
    nExited[i].closed \/ (tasks[i] = "exited" /\ tstate[i] = "blocked")

\* "m.VMExited <- err" does not block: the channel is closed (the send
\* panics), its buffer has room, or the task is receiving.
SendReady(i) ==
    \/ nExited[i].closed
    \/ Len(nExited[i].buf) < VMExitedCap
    \/ (tasks[i] = "exited" /\ tstate[i] = "blocked")

\* notifications.VMExited(err): each task's VMExited gets err and is closed.
VMExited(err) ==
    nExited' = [i \in T |-> [buf |-> Append(nExited[i].buf, err),
                             closed |-> TRUE,
                             sent |-> Append(nExited[i].sent, err)]]

\* err := v.cmd.Wait(); v.notifs.VMExited(err).  cmd.Wait blocks until the
\* child has exited; called again it fails at once ("Wait was already
\* called").
WaitChild ==
    /\ pc = "wait_child"
    /\ cmdWaited \/ child = "exited"
    /\ \A i \in T : SendReady(i)
    /\ LET err == IF cmdWaited THEN "alreadyWaited" ELSE ExitErr(childStatus)
       IN  /\ cmdWaited' = TRUE
           /\ IF VMExitedPanics
              THEN /\ pc' = "panicked"
                   /\ UNCHANGED <<nExited, waitErr, waitVals>>
              ELSE /\ pc' = "wait_eof"
                   /\ VMExited(err)
                   /\ waitErr' = err
                   /\ waitVals' = [waitVals EXCEPT !.child = err]
    /\ UNCHANGED <<config, netv, listener, allocv, evv, optv, taskv, ctxDone, nStarted, child, childStatus,
                   killCalled, consv, expv, waitCalls, waitLog, startErr>>

\* v.Console.ExpectEOF() reads a byte of the child's output and writes it
\* to the sinks.
WaitDrain ==
    /\ pc = "wait_eof"
    /\ ~consoleClosed
    /\ buf > 0
    /\ SinkTakes
    /\ buf' = buf - 1
    /\ UNCHANGED <<config, netv, listener, allocv, evv, optv, pc, taskv, ctxDone, notifv, childv, ttyParent,
                   consoleClosed, sinksClosed, extraOpen, written, expv, waitv,
                   startErr>>

\* The errors ExpectEOF may return at the end of the stream: none, or a
\* read error; on a closed console the read fails.
EOFErrs == IF consoleClosed THEN {"consoleErr"} ELSE {Nil, "consoleErr"}

\* ExpectEOF returns; v.Console.Close() closes the sinks and both sides of
\* the PTY; v.cancel().
WaitEOF ==
    /\ pc = "wait_eof"
    /\ ConsoleEOF \/ consoleClosed
    /\ pc' = "wait_join"
    /\ \E cerr \in EOFErrs :
          /\ waitErr' = MergeErr(waitErr, cerr)
          /\ waitVals' = [waitVals EXCEPT !.console = cerr]
    /\ consoleClosed' = TRUE
    /\ sinksClosed' = TRUE
    /\ ttyParent' = FALSE
    /\ ctxDone' = TRUE
    /\ UNCHANGED <<config, netv, listener, allocv, evv, optv, taskv, notifv, childv, extraOpen, buf, written, expv,
                   waitCalls, waitLog, startErr>>

\* werr := v.wg.Wait(); return err
WaitJoin ==
    /\ pc = "wait_join"
    /\ TasksJoined
    /\ pc' = "waited"
    /\ waitLog' = Append(waitLog, [child |-> waitVals.child,
                                   console |-> waitVals.console,
                                   tasks |-> wgErr,
                                   ret |-> MergeErr(waitErr, wgErr)])
    /\ waitErr' = MergeErr(waitErr, wgErr)
    /\ UNCHANGED <<config, netv, listener, allocv, evv, optv, taskv, ctxDone, notifv, childv, consv, expv,
                   waitCalls, waitVals, startErr>>

\* ------------------------------------------------------------- tasks

\* Task i returns e: the errgroup records it.
Return(i, e) ==
    /\ tstate' = [tstate EXCEPT ![i] = "done"]
    /\ tret' = [tret EXCEPT ![i] = e]
    /\ wgErr' = GroupErr(wgErr, e)

\* <-ctx.Done(); taskGotCanceled = true; return
TaskCtx(i) ==
    /\ tasks[i] \in {"ctx", "ctxErr"}
    /\ tstate[i] = "blocked"
    /\ ctxDone
    /\ flag' = [flag EXCEPT ![i] = TRUE]
    /\ Return(i, IF tasks[i] = "ctxErr" THEN "taskErr" ELSE Nil)
    /\ UNCHANGED <<config, netv, listener, allocv, evv, optv, pc, ctxDone, notifv, childv, consv, expv, waitv,
                   startErr>>

\* err, ok := <-n.VMExited; return nil
TaskExited(i) ==
    /\ tasks[i] = "exited"
    /\ tstate[i] = "blocked"
    /\ nExited[i].buf # <<>> \/ nExited[i].closed
    /\ nExited' = [nExited EXCEPT ![i].buf = IF @ = <<>> THEN @ ELSE Tail(@)]
    /\ flag' = [flag EXCEPT ![i] = TRUE]
    /\ Return(i, Nil)
    /\ UNCHANGED <<config, netv, listener, allocv, evv, optv, pc, ctxDone, nStarted, childv, consv, expv, waitv,
                   startErr>>

\* WaitVMStarted's select takes "case <-n.VMStarted" and calls t, which sets
\* taskRan and returns nil.
TaskStartedRuns(i) ==
    /\ tasks[i] = "started"
    /\ tstate[i] = "blocked"
    /\ nStarted[i]
    /\ flag' = [flag EXCEPT ![i] = TRUE]
    /\ Return(i, Nil)
    /\ UNCHANGED <<config, netv, listener, allocv, evv, optv, pc, ctxDone, notifv, childv, consv, expv, waitv,
                   startErr>>

\* A WaitVMStarted that falls through to t when the context is done.
TaskStartedCanceledRunsTask(i) ==
    /\ tasks[i] = "started"
    /\ tstate[i] = "blocked"
    /\ ctxDone
    /\ flag' = [flag EXCEPT ![i] = TRUE]
    /\ tstate' = [tstate EXCEPT ![i] = "done"]
    /\ tret' = [tret EXCEPT ![i] = Nil]
    /\ UNCHANGED <<config, netv, listener, allocv, evv, optv, pc, wgErr, ctxDone, notifv, childv, consv, expv,
                   waitv, startErr>>

\* WaitVMStarted's select takes "case <-ctx.Done()": return nil.
TaskStartedCanceled(i) ==
    /\ tasks[i] = "started"
    /\ tstate[i] = "blocked"
    /\ ctxDone
    /\ Return(i, Nil)
    /\ UNCHANGED <<config, netv, listener, allocv, evv, optv, pc, flag, ctxDone, notifv, childv, consv, expv, waitv,
                   startErr>>

\* io.ReadAll(r) returns at the end of the pipe.
TaskReadAll(i) ==
    /\ tasks[i] \in {"serial", "file"}
    /\ tstate[i] = "blocked"
    /\ PipeEOF(i)
    /\ flag' = [flag EXCEPT ![i] = TRUE]
    /\ Return(i, Nil)
    /\ UNCHANGED <<config, netv, listener, allocv, evv, optv, pc, ctxDone, notifv, childv, consv, expv, waitv,
                   startErr>>

TaskStep(i) ==
    \/ TaskCtx(i)
    \/ TaskExited(i)
    \/ TaskStartedRuns(i)
    \/ TaskStartedCanceled(i)
    \/ TaskReadAll(i)

\* The task of LogSerialByLine: WaitVMStarted's select takes VMStarted and
\* the scanner starts to read the pipe, or it takes ctx.Done() and the task
\* returns nil; the scanner fails on what it has read (a line longer than
\* its buffer) and the task returns the error, leaving the pipe open; the
\* scanner finds the pipe closed and the task returns nil.
TaskLogLine(i) ==
    /\ tasks[i] = "logline"
    /\ \/ /\ tstate[i] = "blocked"
          /\ nStarted[i]
          /\ tstate' = [tstate EXCEPT ![i] = "reading"]
          /\ UNCHANGED <<wgErr, tret>>
       \/ /\ tstate[i] = "blocked"
          /\ ctxDone
          /\ Return(i, Nil)
       \/ /\ tstate[i] = "reading"
          /\ written - buf > 0
          /\ ~sinksClosed
          /\ Return(i, "scanErr")
       \/ /\ tstate[i] = "reading"
          /\ sinksClosed
          /\ Return(i, Nil)
    /\ UNCHANGED <<config, netv, listener, allocv, evv, optv, pc, flag, ctxDone,
                   notifv, childv, consv, expv, waitv, startErr>>

\* ------------------------------------------------------------- service tasks

\* The tasks of a VM configured with WithTask(Cleanup(fn)), "cleanup" when
\* fn returns nil and "cleanupErr" when it returns an error, next to a task
\* that returns an error when the context is done; and the two tasks of
\* ServeHTTP(s, l), "serve" and "shutdown".
SvcConfigs ==
    { <<"cleanup">>, <<"cleanupErr">>, <<"cleanup", "cleanupErr">>,
      <<"ctxErr", "cleanupErr">>, <<"serve", "shutdown">> }

\* Cleanup(fn): the task invokes fn when the task group is being joined,
\* that is once the context is cancelled, and returns what fn returns.
TaskCleanup(i) ==
    /\ tasks[i] \in {"cleanup", "cleanupErr"}
    /\ tstate[i] = "blocked"
    /\ ctxDone
    /\ flag' = [flag EXCEPT ![i] = TRUE]
    /\ Return(i, IF tasks[i] = "cleanupErr" THEN "fooErr" ELSE Nil)
    /\ UNCHANGED <<config, netv, listener, allocv, evv, optv, pc, ctxDone, notifv, childv,
                   consv, expv, waitv, startErr>>

\* The shutdown task of ServeHTTP goes on: VMExited was delivered, or the
\* context is cancelled.
ShutdownFires(i) == nExited[i].buf # <<>> \/ nExited[i].closed \/ ctxDone

\* The shutdown task of ServeHTTP closes the listener and the server.
TaskShutdown(i) ==
    /\ tasks[i] = "shutdown"
    /\ tstate[i] = "blocked"
    /\ ShutdownFires(i)
    /\ listener' = "closed"
    /\ flag' = [flag EXCEPT ![i] = TRUE]
    /\ Return(i, Nil)
    /\ UNCHANGED <<config, netv, allocv, evv, optv, pc, ctxDone, notifv, childv, consv,
                   expv, waitv, startErr>>

\* The serve task of ServeHTTP: s.Serve(l) returns once the listener and
\* the server are closed.
TaskServe(i) ==
    /\ tasks[i] = "serve"
    /\ tstate[i] = "blocked"
    /\ listener = "closed"
    /\ flag' = [flag EXCEPT ![i] = TRUE]
    /\ Return(i, Nil)
    /\ UNCHANGED <<config, netv, listener, allocv, evv, optv, pc, ctxDone, notifv, childv,
                   consv, expv, waitv, startErr>>

SvcTaskStep(i) ==
    \/ TaskCleanup(i)
    \/ TaskShutdown(i)
    \/ TaskServe(i)

\* ------------------------------------------------------------- event channel

\* The tasks of a VM configured with EventChannel(name, events), "reader",
\* or with EventChannelCallback(name, callback), "drain" and "reader"; the
\* receiver of events is the caller's "for e := range events" in the first
\* case and the drain task in the second.
EvConfigs == { <<"reader">>, <<"drain", "reader">>, <<"ctxErr", "reader">> }

\* The guest's lines: any sequence of at most MaxLines lines.
Scripts == UNION { [1..n -> {"ev", "done", "junk"}] : n \in 0..MaxLines }

\* The process has not panicked.
Alive == pc # "panicked"

\* A reader that takes the exit of the child for the end of the stream.
PtmEOFEarly == ~extraOpen /\ child # "running"

\* A read of ptm finds the stream ended (EIO, which ptmClosedErrorConverter
\* turns into io.EOF): every buffered line was read and nobody holds pts.
PtmEOF == rdpos = emitted /\ ~extraOpen /\ child # "running"

\* A reader that returns nil at the end of a stream without done.
EOFResultNil(done) == Nil

\* The reader's result at the end of the stream.
EOFResult(done) == IF done THEN Nil ELSE "missingDone"

\* A drain task without "case <-ctx.Done()".
DrainIgnoresCancel == FALSE

\* The drain task's "case <-ctx.Done()" is ready.
DrainSeesCancel == ctxDone

\* Somebody is receiving from events.
ReceiverReady ==
    IF \E d \in T : tasks[d] = "drain"
    THEN \E d \in T : tasks[d] = "drain" /\ tstate[d] = "blocked"
    ELSE TRUE

\* The guest writes its next line to the virtio-serial port.
GuestEmit ==
    /\ Alive
    /\ child = "running"
    /\ emitted < Len(script)
    /\ emitted' = emitted + 1
    /\ UNCHANGED <<config, netv, listener, allocv, optv, epc, pipe, fwd, serial, script, rdpos, events, gotDone, delivered, pc, taskv,
                   ctxDone, notifv, childv, consv, expv, waitv, startErr>>

\* WaitVMStarted's select takes "case <-n.VMStarted": the reader closes the
\* parent's pts and starts to scan ptm.
ReaderStarts(i) ==
    /\ tasks[i] = "reader"
    /\ tstate[i] = "blocked"
    /\ nStarted[i]
    /\ tstate' = [tstate EXCEPT ![i] = "reading"]
    /\ flag' = [flag EXCEPT ![i] = TRUE]
    /\ extraOpen' = FALSE
    /\ UNCHANGED <<config, netv, listener, allocv, evv, optv, pc, wgErr, tret, ctxDone, notifv, childv,
                   ttyParent, consoleClosed, sinksClosed, buf, written, expv,
                   waitv, startErr>>

\* WaitVMStarted's select takes "case <-ctx.Done()": return nil.
ReaderCanceled(i) ==
    /\ tasks[i] = "reader"
    /\ tstate[i] = "blocked"
    /\ ctxDone
    /\ Return(i, Nil)
    /\ UNCHANGED <<config, netv, listener, allocv, evv, optv, pc, flag, ctxDone, notifv, childv, consv, expv,
                   waitv, startErr>>

\* ProcessJSONByLine scans one line and calls the callback: a guestevent is
\* sent on events, done closes events and sets gotDone, and the scan goes on;
\* a line that is not JSON ends ProcessJSONByLine with an error, and the task
\* closes events unless gotDone and returns the error.  close of a closed
\* channel panics.
ReaderLine(i) ==
    /\ tasks[i] = "reader"
    /\ tstate[i] = "reading"
    /\ rdpos < emitted
    /\ rdpos' = rdpos + 1
    /\ LET line == script[rdpos + 1]
       IN  CASE line = "ev" ->
                  /\ tstate' = [tstate EXCEPT ![i] = "sending"]
                  /\ UNCHANGED <<events, gotDone, pc, wgErr, tret>>
             [] line = "done" ->
                  /\ events' = [events EXCEPT !.closes = @ + 1]
                  /\ gotDone' = TRUE
                  /\ pc' = IF events.closes > 0 THEN "panicked" ELSE pc
                  /\ UNCHANGED taskv
             [] line = "junk" ->
                  /\ events' = [events EXCEPT
                                  !.closes = IF gotDone THEN @ ELSE @ + 1]
                  /\ Return(i, "jsonErr")
                  /\ UNCHANGED <<gotDone, pc>>
    /\ UNCHANGED <<config, netv, listener, allocv, optv, epc, pipe, fwd, serial, script, emitted, delivered, flag, ctxDone, notifv,
                   childv, consv, expv, waitv, startErr>>

\* events <- c.Actual: the receiver takes the event (the drain task calls
\* the callback with it); a send on a closed channel panics.
ReaderSend(i) ==
    /\ tasks[i] = "reader"
    /\ tstate[i] = "sending"
    /\ IF events.closes > 0
       THEN /\ events' = [events EXCEPT !.lateSend = TRUE]
            /\ pc' = "panicked"
            /\ UNCHANGED <<delivered, tstate>>
       ELSE /\ ReceiverReady
            /\ delivered' = Append(delivered, rdpos)
            /\ tstate' = [tstate EXCEPT ![i] = "reading"]
            /\ UNCHANGED <<events, pc>>
    /\ UNCHANGED <<config, netv, listener, allocv, optv, epc, pipe, fwd, serial, script, emitted, rdpos, gotDone, flag, wgErr, tret,
                   ctxDone, notifv, childv, consv, expv, waitv, startErr>>

\* The scan ends at the end of the stream: the task closes events and
\* returns ErrEventChannelMissingDoneEvent unless gotDone.
ReaderEOF(i) ==
    /\ tasks[i] = "reader"
    /\ tstate[i] = "reading"
    /\ PtmEOF
    /\ events' = [events EXCEPT !.closes = IF gotDone THEN @ ELSE @ + 1]
    /\ Return(i, EOFResult(gotDone))
    /\ UNCHANGED <<config, netv, listener, allocv, optv, epc, pipe, fwd, serial, script, emitted, rdpos, gotDone, delivered, pc, flag,
                   ctxDone, notifv, childv, consv, expv, waitv, startErr>>

\* The drain task's select takes "case e, ok := <-ch" with ok false:
\* return nil.
DrainClosed(i) ==
    /\ tasks[i] = "drain"
    /\ tstate[i] = "blocked"
    /\ events.closes > 0
    /\ Return(i, Nil)
    /\ UNCHANGED <<config, netv, listener, allocv, evv, optv, pc, flag, ctxDone, notifv, childv, consv, expv,
                   waitv, startErr>>

\* The drain task's select takes "case <-ctx.Done()": return ctx.Err().
DrainCanceled(i) ==
    /\ tasks[i] = "drain"
    /\ tstate[i] = "blocked"
    /\ DrainSeesCancel
    /\ Return(i, "canceled")
    /\ UNCHANGED <<config, netv, listener, allocv, evv, optv, pc, flag, ctxDone, notifv, childv, consv, expv,
                   waitv, startErr>>

EvTaskStep(i) ==
    /\ Alive
    /\ \/ ReaderStarts(i)
       \/ ReaderCanceled(i)
       \/ ReaderLine(i)
       \/ ReaderSend(i)
       \/ ReaderEOF(i)
       \/ DrainClosed(i)
       \/ DrainCanceled(i)

\* ------------------------------------------------------------- guest emitter

\* A write on the serial device is <<"guestevent", k>>, the JSON of the
\* guestevent of record k, <<"done", 0>>, the JSON of the done event, or
\* <<"\n", 0>>, a newline.

\* emitter.Write(p), p the line of the next record: e.w.Write(p) offers the
\* line to the pipe and blocks until the goroutine has read it.
Write ==
    /\ epc.pc = "idle"
    /\ epc.n < MaxRecords
    /\ epc' = [pc |-> "write", n |-> epc.n + 1]
    /\ pipe' = [pipe EXCEPT !.data = <<epc.n + 1>>]
    /\ UNCHANGED <<config, netv, listener, allocv, optv, script, emitted, rdpos,
                   events, gotDone, delivered, fwd, serial, pc, taskv, ctxDone,
                   notifv, childv, consv, expv, waitv, startErr>>

\* emitter.Close() step by step: sendEvent(done) writes the JSON and then
\* the newline to the device, e.w.Close() closes the pipe, <-e.errCh takes
\* the goroutine's result.
Close ==
    /\ \/ /\ epc.pc = "idle"
          /\ epc' = [epc EXCEPT !.pc = "close_nl"]
          /\ serial' = Append(serial, <<"done", 0>>)
          /\ UNCHANGED <<pipe, fwd>>
       \/ /\ epc.pc = "close_nl"
          /\ epc' = [epc EXCEPT !.pc = "close_pipe"]
          /\ serial' = Append(serial, <<"\n", 0>>)
          /\ UNCHANGED <<pipe, fwd>>
       \/ /\ epc.pc = "close_pipe"
          /\ epc' = [epc EXCEPT !.pc = "close_wait"]
          /\ pipe' = [pipe EXCEPT !.closed = TRUE]
          /\ UNCHANGED <<fwd, serial>>
       \/ /\ epc.pc = "close_wait"
          /\ fwd.pc = "send_err"
          /\ epc' = [epc EXCEPT !.pc = "closed"]
          /\ fwd' = [fwd EXCEPT !.pc = "done"]
          /\ UNCHANGED <<pipe, serial>>
    /\ UNCHANGED <<config, netv, listener, allocv, optv, script, emitted, rdpos,
                   events, gotDone, delivered, pc, taskv, ctxDone, notifv,
                   childv, consv, expv, waitv, startErr>>

\* The goroutine EventChannel starts, step by step: the scanner of
\* ProcessJSONByLine reads the line a Write offers, which lets the Write
\* return; the callback's Emit writes the JSON of the guestevent and then
\* the newline to the device; at the end of the pipe ProcessJSONByLine
\* returns and the goroutine sends its result on errCh.
Forward ==
    /\ \/ /\ fwd.pc = "scan"
          /\ pipe.data # <<>>
          /\ fwd' = [pc |-> "emit_json", rec |-> pipe.data[1]]
          /\ pipe' = [pipe EXCEPT !.data = <<>>]
          /\ epc' = [epc EXCEPT !.pc = "idle"]
          /\ UNCHANGED serial
       \/ /\ fwd.pc = "emit_json"
          /\ serial' = Append(serial, <<"guestevent", fwd.rec>>)
          /\ fwd' = [fwd EXCEPT !.pc = "emit_nl"]
          /\ UNCHANGED <<epc, pipe>>
       \/ /\ fwd.pc = "emit_nl"
          /\ serial' = Append(serial, <<"\n", 0>>)
          /\ fwd' = [fwd EXCEPT !.pc = "scan"]
          /\ UNCHANGED <<epc, pipe>>
       \/ /\ fwd.pc = "scan"
          /\ pipe.data = <<>>
          /\ pipe.closed
          /\ fwd' = [fwd EXCEPT !.pc = "send_err"]
          /\ UNCHANGED <<epc, pipe, serial>>
    /\ UNCHANGED <<config, netv, listener, allocv, optv, script, emitted, rdpos,
                   events, gotDone, delivered, pc, taskv, ctxDone, notifv,
                   childv, consv, expv, waitv, startErr>>

\* ------------------------------------------------------------- IDAllocator

\* The decimal digits.
Digits == <<"0", "1", "2", "3", "4", "5", "6", "7", "8", "9">>
IsDigit(c) == \E d \in 1..Len(Digits) : Digits[d] = c

\* The prefixes given to ID: any string of at most MaxPrefixLen symbols,
\* each a letter or a digit.
Prefixes == UNION { [1..n -> {"p", "0"}] : n \in 0..MaxPrefixLen }

\* An ID that keeps the prefix as given.
KeepPrefix(s) == s

\* strings.TrimRight(s, "0123456789")
RECURSIVE TrimRight(_)
TrimRight(s) ==
    IF s # <<>> /\ IsDigit(s[Len(s)])
    THEN TrimRight(SubSeq(s, 1, Len(s) - 1))
    ELSE s

\* fmt.Sprintf("%d", n)
RECURSIVE Itoa(_)
Itoa(n) ==
    IF n < 10 THEN <<Digits[n + 1]>>
    ELSE Itoa(n \div 10) \o <<Digits[(n % 10) + 1]>>

\* A map that never remembers a count.
LookupZero(m, k) == 0

\* m[k] of a Go map: the zero value for a missing key.
Lookup(m, k) == IF k \in DOMAIN m THEN m[k] ELSE 0

\* a.ID(prefix) of an allocator whose map is m: the id returned and the map
\* afterwards.
AllocID(m, prefix) ==
    LET p == TrimRight(prefix)
        i == Lookup(m, p)
    IN  [id  |-> p \o Itoa(i),
         idx |-> [k \in DOMAIN m \cup {p} |-> IF k = p THEN i + 1 ELSE m[k]]]

\* A call of IDAllocator.ID(prefix)
ID(prefix) ==
    /\ Len(idLog) < MaxIDs
    /\ idx' = AllocID(idx, prefix).idx
    /\ idLog' = Append(idLog, [prefix |-> prefix, id |-> AllocID(idx, prefix).id])
    /\ UNCHANGED <<config, netv, listener, evv, optv, idx0, pc, taskv, ctxDone, notifv, childv,
                   consv, expv, waitv, startErr>>

\* ------------------------------------------------------------- OptionsFor

\* The configurators: WithKernel, WithInitramfs, WithAppendKernel,
\* ArbitraryArgs, and a configurator that returns an error.
WithQEMUCommand(cmd) == [op |-> "WithQEMUCommand", arg |-> cmd]
WithKernel(kernel) == [op |-> "WithKernel", arg |-> kernel]
WithInitramfs(initramfs) == [op |-> "WithInitramfs", arg |-> initramfs]
WithAppendKernel(args) == [op |-> "WithAppendKernel", arg |-> args]
ArbitraryArgs(aa) == [op |-> "ArbitraryArgs", arg |-> aa]
FailingFn == [op |-> "fail", arg |-> <<>>]

\* The device configurators.
IDEBlockDevice(file) == [op |-> "IDEBlockDevice", arg |-> file]
ReadOnlyDirectory(dir) == [op |-> "ReadOnlyDirectory", arg |-> dir]
P9Directory(dir, boot, tag) ==
    [op |-> "P9Directory", arg |-> dir, boot |-> boot, tag |-> tag]
EventChannel(name) == [op |-> "EventChannel", arg |-> name]

\* All(fn...)
All(fn) == [op |-> "All", arg |-> fn]

\* IfArch(arch, fn), IfNotArch(arch, fn) and ByArch(m), m a map from
\* architectures to configurators.
IfArch(a, fn) == [op |-> "IfArch", arch |-> a, arg |-> fn]
IfNotArch(a, fn) == [op |-> "IfNotArch", arch |-> a, arg |-> fn]
ByArch(m) == [op |-> "ByArch", arg |-> m]

\* ArchArm
ArchArm == "arm"

\* The pts that pty.Open returns to the EventChannel configurator whose
\* chardev is pipeID.
Pts(pipeID) == [pts |-> pipeID]

\* An AddFile that returns the file's index.
AddFileIndex(o, f) ==
    [opts |-> [o EXCEPT !.ExtraFiles = Append(@, f)],
     fd   |-> Len(o.ExtraFiles)]

\* Options.AddFile(f): the Options afterwards and the FD returned.
AddFile(o, f) ==
    [opts |-> [o EXCEPT !.ExtraFiles = Append(@, f)],
     fd   |-> Len(o.ExtraFiles) + 1 + 2]

\* The FD in the child of cmd.ExtraFiles[i], i counted from 1 (os/exec:
\* entry i, counted from 0, becomes file descriptor 3+i).
ChildFD(i) == 3 + (i - 1)

\* The -drive and -device arguments of IDEBlockDevice and
\* ReadOnlyDirectory: file is the value of "file=".
DriveArgs(file, drive, ahci) ==
    << <<"-drive">>, <<"file=">> \o file \o <<",if=none,id=">> \o drive,
       <<"-device">>, <<"ich9-ahci,id=">> \o ahci,
       <<"-device">>,
       <<"ide-hd,drive=">> \o drive \o <<",bus=">> \o ahci \o <<".0">> >>

\* A P9Directory that uses the pci device for every architecture.
P9DeviceModelPCI(a) == <<"virtio-9p-pci">>

\* P9Directory's switch on the architecture.
P9DeviceModel(a) ==
    IF a = ArchArm THEN <<"virtio-9p-device">> ELSE <<"virtio-9p-pci">>

\* The kernel arguments P9Directory appends for a boot volume.
P9BootKArgs ==
    << <<"devtmpfs.mount=1">>, <<"root=/dev/root">>, <<"rootfstype=9p">>,
       <<"rootflags=trans=virtio,version=9p2000.L">> >>

\* strings.Join(s, " ") for one string or more.
RECURSIVE Join(_)
Join(s) == IF Len(s) = 1 THEN s[1] ELSE s[1] \o <<" ">> \o Join(Tail(s))

FnSet ==
    { WithKernel(<<"k">>), WithInitramfs(<<"i">>), WithAppendKernel(<<"a">>),
      ArbitraryArgs(<<"-x">>), ArbitraryArgs(<<"-y">>), FailingFn }

\* The QEMU command strings: any string of at most MaxCmdLen symbols, each
\* a letter or a space.
CmdStrings == UNION { [1..n -> {"q", " "}] : n \in 0..MaxCmdLen }

\* The guest architectures OptionsFor is called with: none, a supported
\* one, an unsupported one.
Archs == {"", "x86_64", "m68k"}

\* A configurator that returns nil and changes nothing.
NoOp(o, m) == [opts |-> o, err |-> Nil, n |-> 1, idx |-> m]

\* IDEBlockDevice(file)(alloc, o) and ReadOnlyDirectory(dir)(alloc, o):
\* path is the file or the directory, file the value of "file=".
ApplyDrive(path, file, o, m) ==
    IF Len(path) = 0 THEN NoOp(o, m)
    ELSE LET drive == AllocID(m, <<"drive">>)
             ahci == AllocID(drive.idx, <<"ahci">>)
         IN  [opts |-> AppendQEMU(o, DriveArgs(file, drive.id, ahci.id)),
              err |-> Nil, n |-> 1, idx |-> ahci.idx]

\* P9Directory(dir, boot, tag)(alloc, o) for the architecture a.
ApplyP9(f, o, m, a) ==
    IF Len(f.arg) = 0 THEN NoOp(o, m)
    ELSE LET tag == IF f.boot THEN <<"/dev/root">>
                    ELSE IF Len(f.tag) = 0 THEN <<"tmpdir">> ELSE f.tag
             al == AllocID(m, <<"fsdev">>)
             id == IF f.boot THEN <<"rootdrv">> ELSE al.id
             deviceArgs == P9DeviceModel(a) \o <<",fsdev=">> \o id
                             \o <<",mount_tag=">> \o tag
             o1 == AppendQEMU(o,
                     << <<"-fsdev">>,
                        <<"local,id=">> \o id \o <<",path=">> \o f.arg
                          \o <<",security_model=mapped-file">>,
                        <<"-device">>, deviceArgs >>)
         IN  [opts |-> IF f.boot THEN AppendKernel(o1, Join(P9BootKArgs))
                       ELSE AppendKernel(o1, <<"UROOT_USE_9P=1">>),
              err |-> Nil, n |-> 1,
              idx |-> IF f.boot THEN m ELSE al.idx]

\* EventChannel(name, events)(alloc, o), pty.Open succeeding.
ApplyEventChannel(f, o, m) ==
    LET pipeID == AllocID(m, <<"pipe">>)
        af == AddFile(o, Pts(pipeID.id))
        o1 == AppendQEMU(af.opts,
                << <<"-device">>, <<"virtio-serial">>,
                   <<"-device">>,
                   <<"virtserialport,chardev=">> \o pipeID.id
                     \o <<",name=">> \o f.arg,
                   <<"-chardev">>,
                   <<"pipe,id=">> \o pipeID.id \o <<",path=/proc/self/fd/">>
                     \o Itoa(af.fd) >>)
    IN  [opts |-> [o1 EXCEPT !.Tasks = Append(@, "reader")],
         err |-> Nil, n |-> 1, idx |-> pipeID.idx]

\* WithMAC(mac) of package qnetwork; a nil mac is <<>>.
WithMAC(mac) == [op |-> "WithMAC", arg |-> mac]

\* The Fn that InterVM.NewVM(nopts...) returns: it has captured num, the
\* network's socket and nopts.
NewVM(num, socket, nopts) ==
    [op |-> "NewVM", num |-> num, socket |-> socket, arg |-> nopts]

\* net.HardwareAddr.String(): the bytes in two hexadecimal digits each,
\* separated by ":".
RECURSIVE HardwareAddrString(_)
HardwareAddrString(mac) ==
    LET hex == <<"0", "1", "2", "3", "4", "5", "6", "7", "8", "9", "a", "b",
                 "c", "d", "e", "f">>
        b == <<hex[(mac[1] \div 16) + 1], hex[(mac[1] % 16) + 1]>>
    IN  IF Len(mac) = 1 THEN b
        ELSE b \o <<":">> \o HardwareAddrString(Tail(mac))

\* The Opts of nopts applied in order to the network device options no;
\* WithMAC returns no arguments.
RECURSIVE ApplyNetOpts(_, _)
ApplyNetOpts(nopts, no) ==
    IF nopts = <<>> THEN no
    ELSE ApplyNetOpts(Tail(nopts),
                      IF Head(nopts).arg # <<>>
                      THEN [no EXCEPT !.MAC = Head(nopts).arg] ELSE no)

\* n.NewVM(nopts...)(alloc, o), f being the Fn and m the allocator's map;
\* byte(num) is num modulo 256.
ApplyNewVM(f, o, m) ==
    LET devID == AllocID(m, <<"vm">>)
        no == ApplyNetOpts(f.arg,
                [NIC |-> <<"e1000">>,
                 MAC |-> <<14, 0, 0, 0, 0, f.num % 256>>])
    IN  [opts |-> AppendQEMU(o,
                    << <<"-device">>,
                       no.NIC \o <<",netdev=">> \o devID.id \o <<",mac=">>
                         \o HardwareAddrString(no.MAC),
                       <<"-netdev">>,
                       <<"stream,id=">> \o devID.id \o <<",server=">>
                         \o (IF f.num # 0 THEN <<"false">> ELSE <<"true">>)
                         \o <<",addr.type=unix,addr.path=">> \o f.socket >>),
         err |-> Nil, n |-> 1, idx |-> devID.idx]

\* The Fn that IPv4HostNetwork(ipnet, nopts...) returns; ipnet is a
\* net.IPNet, its mask given by the number of its leading ones.
IPv4HostNetwork(ipnet, nopts) ==
    [op |-> "IPv4HostNetwork", ipnet |-> ipnet, arg |-> nopts]

\* net.IP.Mask of ip with the mask of ones leading ones; a network nt
\* contains ip when both have the same bytes under the network's mask.
Mask(ip, ones) ==
    [j \in 1..Len(ip) |->
        LET k == ones - 8 * (j - 1)
            bits == IF k < 0 THEN 0 ELSE IF k > 8 THEN 8 ELSE k
        IN  ip[j] - (ip[j] % (2 ^ (8 - bits)))]

\* net.IP.String(): "<nil>" for a nil IP, else the four bytes in decimal,
\* separated by ".".
IPString(ip) ==
    IF ip = <<>> THEN <<"<nil>">>
    ELSE Itoa(ip[1]) \o <<".">> \o Itoa(ip[2]) \o <<".">> \o Itoa(ip[3])
           \o <<".">> \o Itoa(ip[4])

\* inc(ip), the loop being at byte j: the byte is incremented as a uint8,
\* and the loop goes on to the byte before when it wrapped to 0.
RECURSIVE inc(_, _)
inc(ip, j) ==
    IF j < 1 THEN ip
    ELSE LET b == (ip[j] + 1) % 256
         IN  IF b > 0 THEN [ip EXCEPT ![j] = b]
             ELSE inc([ip EXCEPT ![j] = b], j - 1)

\* nthIP(nt, n): nt.IP.To4() incremented n times, nil when nt does not
\* contain the result.
nthIP(nt, n) ==
    LET RECURSIVE loop(_, _)
        loop(ip, i) == IF i < n THEN loop(inc(ip, Len(ip)), i + 1) ELSE ip
        ip == loop(nt.IP, 0)
    IN  IF Mask(ip, nt.ones) # Mask(nt.IP, nt.ones) THEN <<>> ELSE ip

\* IPv4HostNetwork(ipnet, nopts...)(alloc, o), f being the Fn and m the
\* allocator's map; To4 is nil for an address of 16 bytes that is not an
\* IPv4-mapped one.
ApplyIPv4HostNetwork(f, o, m) ==
    IF Len(f.ipnet.IP) # 4
    THEN [opts |-> o, err |-> "notIPv4", n |-> 1, idx |-> m]
    ELSE
    LET netdevID == AllocID(m, <<"netdev">>)
        no == ApplyNetOpts(f.arg,
                [NIC |-> <<"e1000">>, MAC |-> <<14, 0, 0, 0, 0, 1>>])
    IN  [opts |-> AppendQEMU(o,
                    << <<"-device">>,
                       no.NIC \o <<",netdev=">> \o netdevID.id
                         \o <<",mac=">> \o HardwareAddrString(no.MAC),
                       <<"-netdev">>,
                       <<"user,id=">> \o netdevID.id \o <<",net=">>
                         \o IPString(f.ipnet.IP) \o <<"/">>
                         \o Itoa(f.ipnet.ones) \o <<",dhcpstart=">>
                         \o IPString(nthIP(f.ipnet, DHCPStartN))
                         \o <<",ipv6=off">> >>),
         err |-> Nil, n |-> 1, idx |-> netdevID.idx]

\* An IfNotArch that applies fn whatever the architecture.
IfNotArchAlways(f, a) ==
    CASE f.op = "IfArch" -> a = f.arch
      [] f.op = "IfNotArch" -> TRUE
      [] f.op = "ByArch" -> a \in DOMAIN f.arg

\* The architecture predicate of IfArch, IfNotArch and ByArch holds.
IfArchHolds(f, a) ==
    CASE f.op = "IfArch" -> a = f.arch
      [] f.op = "IfNotArch" -> a # f.arch
      [] f.op = "ByArch" -> a \in DOMAIN f.arg

\* The configurator IfArch, IfNotArch and ByArch select.
Selected(f, a) == IF f.op = "ByArch" THEN f.arg[a] ELSE f.arg

\* f(alloc, o) for a configurator f other than All, alloc having the map m
\* and the architecture being a: the Options after it, its error, the
\* number of configurators invoked, the allocator's map.
RECURSIVE Apply(_, _, _, _)
Apply(f, o, m, a) ==
    CASE f.op = "WithQEMUCommand" ->
           [opts |-> [o EXCEPT !.QEMUCommand = f.arg], err |-> Nil, n |-> 1,
            idx |-> m]
      [] f.op = "WithKernel" ->
           [opts |-> [o EXCEPT !.Kernel = f.arg], err |-> Nil, n |-> 1,
            idx |-> m]
      [] f.op = "WithInitramfs" ->
           [opts |-> [o EXCEPT !.Initramfs = f.arg], err |-> Nil, n |-> 1,
            idx |-> m]
      [] f.op = "WithAppendKernel" ->
           [opts |-> AppendKernel(o, f.arg), err |-> Nil, n |-> 1, idx |-> m]
      [] f.op = "ArbitraryArgs" ->
           [opts |-> AppendQEMU(o, <<f.arg>>), err |-> Nil, n |-> 1,
            idx |-> m]
      [] f.op = "fail" ->
           [opts |-> o, err |-> "fnErr", n |-> 1, idx |-> m]
      [] f.op = "IDEBlockDevice" -> ApplyDrive(f.arg, f.arg, o, m)
      [] f.op = "ReadOnlyDirectory" ->
           ApplyDrive(f.arg, <<"fat:rw:">> \o f.arg, o, m)
      [] f.op = "P9Directory" -> ApplyP9(f, o, m, a)
      [] f.op = "EventChannel" -> ApplyEventChannel(f, o, m)
      [] f.op = "NewVM" -> ApplyNewVM(f, o, m)
      [] f.op = "IPv4HostNetwork" -> ApplyIPv4HostNetwork(f, o, m)
      [] f.op \in {"IfArch", "IfNotArch", "ByArch"} ->
           IF IfArchHolds(f, a) THEN Apply(Selected(f, a), o, m, a)
           ELSE NoOp(o, m)

\* All(fn...)(alloc, o): the configurators in order up to the first error.
RECURSIVE ApplyAll(_, _, _, _)
ApplyAll(fn, o, m, a) ==
    IF fn = <<>> THEN [opts |-> o, err |-> Nil, n |-> 0, idx |-> m]
    ELSE LET r == Apply(Head(fn), o, m, a)
         IN  IF r.err # Nil THEN r
             ELSE [ApplyAll(Tail(fn), r.opts, r.idx, a) EXCEPT !.n = @ + 1]

\* The arguments of OptionsFor: the first grouped configurators as one
\* All(...), then the others one by one.
NumTop == IF grouped = 0 THEN Len(fns) ELSE Len(fns) - grouped + 1
TopFn(j) ==
    IF grouped = 0 THEN fns[j]
    ELSE IF j = 1 THEN All(SubSeq(fns, 1, grouped))
    ELSE fns[grouped + j - 1]

\* An OptionsFor that goes on after an error.
ContinueAlways(err) == TRUE

\* OptionsFor's loop goes on to the next configurator.
Continue(err) == err = Nil

\* A setArch that takes any architecture.
setArchUnchecked(a) == Nil

\* Options.setArch(arch)
setArch(a) ==
    IF Len(a) = 0 THEN "noGuestArch"
    ELSE IF a \notin SupportedGuestArches THEN "unsupportedGuestArch"
    ELSE Nil

\* An OptionsFor that goes on with the allocator it finds.
KeepAllocator(m) == m

\* alloc := NewIDAllocator() in OptionsFor: m is the map of the allocator
\* of an earlier call.
FreshAllocator(m) == <<>>

\* OptionsFor up to its loop: the Options are seeded from the environment,
\* the architecture is set.
OptionsForBegin ==
    /\ pc = "new"
    /\ ncalls' = ncalls + 1
    /\ idx' = FreshAllocator(idx)
    /\ idx0' = <<>>
    /\ opts' = SeedOptions(env)
    /\ IF setArch(arch) # Nil
       THEN pc' = "options_failed" /\ optErr' = setArch(arch)
       ELSE IF NumTop = 0
       THEN pc' = "configured" /\ optErr' = Nil
       ELSE pc' = "options" /\ optErr' = optErr
    /\ UNCHANGED <<config, netv, listener, idLog, evv, arch, env, fns, grouped, fnpos, applied,
                   argvLog, taskv, ctxDone, notifv, childv, consv, expv, waitv,
                   startErr>>

\* One turn of OptionsFor's loop: the next configurator is applied; its
\* error ends OptionsFor, which returns after the last one.
OptionsForApply ==
    /\ pc = "options"
    /\ LET f == TopFn(fnpos + 1)
           r == IF f.op = "All" THEN ApplyAll(f.arg, opts, idx, arch)
                ELSE Apply(f, opts, idx, arch)
           k == Len(applied)
       IN  /\ opts' = r.opts
           /\ idx' = r.idx
           /\ applied' = applied \o [j \in 1..r.n |-> k + j]
           /\ fnpos' = fnpos + 1
           /\ IF ~Continue(r.err)
              THEN pc' = "options_failed" /\ optErr' = r.err
              ELSE IF fnpos + 1 = NumTop
              THEN pc' = "configured" /\ optErr' = Nil
              ELSE pc' = "options" /\ optErr' = optErr
    /\ UNCHANGED <<config, netv, listener, idx0, idLog, evv, arch, env, fns, grouped, argvLog,
                   ncalls, taskv, ctxDone, notifv, childv, consv, expv, waitv,
                   startErr>>

\* The caller, OptionsFor having returned, calls it again with the same
\* arguments.
OptionsForAgain ==
    /\ pc \in {"configured", "options_failed"}
    /\ ncalls < MaxCalls
    /\ pc' = "new"
    /\ fnpos' = 0
    /\ applied' = <<>>
    /\ optErr' = "none"
    /\ UNCHANGED <<config, netv, listener, allocv, evv, arch, env, fns, grouped, opts, argvLog,
                   ncalls, taskv, ctxDone, notifv, childv, consv, expv, waitv,
                   startErr>>

\* The caller calls o.Cmdline().
CmdlineCall ==
    /\ pc = "configured"
    /\ Len(argvLog) < MaxCmdlines
    /\ argvLog' = Append(argvLog, Cmdline(opts))
    /\ UNCHANGED <<config, netv, listener, allocv, evv, arch, env, fns, grouped, opts, fnpos, applied,
                   optErr, ncalls, pc, taskv, ctxDone, notifv, childv, consv,
                   expv, waitv, startErr>>

\* Options.Start: o.Cmdline() fails and Start returns its error.
StartCmdlineFails ==
    /\ pc = "configured"
    /\ Cmdline(opts).err # Nil
    /\ pc' = "start_failed"
    /\ startErr' = Cmdline(opts).err
    /\ UNCHANGED <<config, netv, listener, allocv, evv, optv, taskv, ctxDone, notifv, childv, consv,
                   expv, waitv>>

\* ------------------------------------------------------------- InterVM

\* An add that counts twice.
AddUint32Twice(n, delta) == n + delta + delta

\* atomic.AddUint32(&n, delta): the new value.
AddUint32(n, delta) == n + delta

\* The goroutine of VM v calls n.NewVM(nopts...): the counter is
\* incremented atomically and the Fn captures the value before.
NewVMCall(v) ==
    /\ vms[v].pc = "idle"
    /\ LET newNum == AddUint32(numVMs, 1)
           num == newNum - 1
       IN  /\ numVMs' = newNum
           /\ vms' = [vms EXCEPT ![v].pc = "made",
                                 ![v].fn = <<NewVM(num, <<"intervm.socket">>,
                                                  vms[v].nopts)>>]
    /\ UNCHANGED <<config, listener, allocv, evv, optv, pc, taskv, ctxDone,
                   notifv, childv, consv, expv, waitv, startErr, hostnet>>

\* The goroutine of VM v calls OptionsFor(arch, fn) with the Fn it got: the
\* Fn is applied to the seeded Options with a new allocator.
NewVMConfigure(v) ==
    /\ vms[v].pc = "made"
    /\ LET r == Apply(vms[v].fn[1], SeedOptions(env), FreshAllocator(idx), arch)
       IN  vms' = [vms EXCEPT ![v].pc = "configured", ![v].opts = <<r.opts>>]
    /\ UNCHANGED <<config, listener, allocv, evv, optv, pc, taskv, ctxDone,
                   notifv, childv, consv, expv, waitv, startErr, numVMs,
                   hostnet>>

\* ------------------------------------------------------------- host network

\* The goroutine calls OptionsFor(arch, fn) with the Fn IPv4HostNetwork
\* returned: the Fn is applied to the seeded Options with a new allocator.
HostConfigure ==
    /\ hostnet.pc = "made"
    /\ LET r == Apply(hostnet.fn[1], SeedOptions(env), FreshAllocator(idx),
                      arch)
       IN  hostnet' = [hostnet EXCEPT !.pc = "configured",
                                      !.opts = <<r.opts>>, !.err = r.err]
    /\ UNCHANGED <<config, listener, allocv, evv, optv, pc, taskv, ctxDone,
                   notifv, childv, consv, expv, waitv, startErr, numVMs, vms>>

\* ------------------------------------------------------------- specification

Next ==
    \/ StartTasks
    \/ StartSpawnFails
    \/ StartJoin
    \/ StartSpawnOK
    \/ Timeout
    \/ CtxKill
    \/ ChildWrite
    \/ ChildExit
    \/ Kill
    \/ ExpectCall
    \/ ExpectRead
    \/ ExpectEnd
    \/ WaitCall
    \/ WaitChild
    \/ WaitDrain
    \/ WaitEOF
    \/ WaitJoin
    \/ \E i \in T : TaskStep(i)

Spec == Init /\ [][Next]_vars

\* The Go scheduler runs every runnable goroutine, cmd.Start and the kernel's
\* kill return, the deadline timer fires.  Nothing is assumed of the caller's
\* choices (whether it calls Expect, Kill or Wait) nor of the child (whether
\* it writes, whether it ever exits by itself).
FairSpec ==
    /\ Spec
    /\ WF_vars(StartTasks)
    /\ WF_vars(StartSpawnFails \/ StartSpawnOK)
    /\ WF_vars(StartJoin)
    /\ WF_vars(Timeout)
    /\ WF_vars(CtxKill)
    /\ WF_vars(ExpectRead)
    /\ WF_vars(ExpectEnd)
    /\ WF_vars(WaitChild)
    /\ WF_vars(WaitDrain)
    /\ WF_vars(WaitEOF)
    /\ WF_vars(WaitJoin)
    /\ \A i \in 1..MaxTasks : WF_vars(i \in T /\ TaskStep(i))

\* FairSpec with a guest that runs to its end: it writes whenever the
\* console takes the byte, and exits after its last byte.
FinishSpec ==
    /\ FairSpec
    /\ WF_vars(ChildWrite)
    /\ WF_vars(ChildExit)

\* A VM with one event channel whose guest writes any lines and exits at
\* any time, started and then waited for by the caller.
EvInit ==
    /\ tasks \in EvConfigs
    /\ vmTimeout \in BOOLEAN
    /\ outPlan = 0
    /\ script \in Scripts
    /\ Configured
    /\ NewIDAllocator
    /\ NoNetwork

EvNext ==
    \/ StartTasks
    \/ StartSpawnFails
    \/ StartJoin
    \/ StartSpawnOK
    \/ Timeout
    \/ CtxKill
    \/ ChildExit
    \/ GuestEmit
    \/ WaitCall
    \/ WaitChild
    \/ WaitEOF
    \/ WaitJoin
    \/ \E i \in T : TaskStep(i)
    \/ \E i \in T : EvTaskStep(i)

EvSpec == EvInit /\ [][EvNext]_vars

\* As FairSpec: every runnable goroutine runs; nothing is assumed of the
\* guest.
EvFairSpec ==
    /\ EvSpec
    /\ WF_vars(StartTasks)
    /\ WF_vars(StartSpawnFails \/ StartSpawnOK)
    /\ WF_vars(StartJoin)
    /\ WF_vars(Timeout)
    /\ WF_vars(CtxKill)
    /\ WF_vars(WaitChild)
    /\ WF_vars(WaitEOF)
    /\ WF_vars(WaitJoin)
    /\ \A i \in 1..MaxTasks : WF_vars(i \in T /\ TaskStep(i))
    /\ \A i \in 1..MaxTasks : WF_vars(i \in T /\ EvTaskStep(i))

\* A VM with Cleanup tasks or with the tasks of ServeHTTP, whose guest
\* writes nothing and exits at any time, started and then waited for by the
\* caller.
SvcInit ==
    /\ tasks \in SvcConfigs
    /\ vmTimeout \in BOOLEAN
    /\ outPlan = 0
    /\ script = <<>>
    /\ Configured
    /\ NewIDAllocator
    /\ NoNetwork

SvcNext ==
    \/ StartTasks
    \/ StartSpawnFails
    \/ StartJoin
    \/ StartSpawnOK
    \/ Timeout
    \/ CtxKill
    \/ ChildExit
    \/ Kill
    \/ WaitCall
    \/ WaitChild
    \/ WaitEOF
    \/ WaitJoin
    \/ \E i \in T : TaskStep(i)
    \/ \E i \in T : SvcTaskStep(i)

SvcSpec == SvcInit /\ [][SvcNext]_vars

\* SvcSpec with the fairness of FairSpec.
SvcFairSpec ==
    /\ SvcSpec
    /\ WF_vars(StartTasks)
    /\ WF_vars(StartSpawnFails \/ StartSpawnOK)
    /\ WF_vars(StartJoin)
    /\ WF_vars(Timeout)
    /\ WF_vars(CtxKill)
    /\ WF_vars(WaitChild)
    /\ WF_vars(WaitEOF)
    /\ WF_vars(WaitJoin)
    /\ \A i \in 1..MaxTasks : WF_vars(i \in T /\ TaskStep(i))
    /\ \A i \in 1..MaxTasks : WF_vars(i \in T /\ SvcTaskStep(i))

\* A VM configured with LogSerialByLine, alone or next to a task that waits
\* for the context, whose guest writes up to MaxOut bytes.
SinkInit ==
    /\ tasks \in { <<"logline">>, <<"ctx", "logline">> }
    /\ vmTimeout \in BOOLEAN
    /\ outPlan \in 0..MaxOut
    /\ script = <<>>
    /\ Configured
    /\ NewIDAllocator
    /\ NoNetwork

\* The lifecycle with the task of LogSerialByLine, under the fairness of
\* FairSpec; whether the scanner fails is up to the guest's output.
SinkSpec ==
    /\ SinkInit
    /\ [][\/ Next
          \/ \E i \in T : TaskLogLine(i)]_vars
    /\ WF_vars(StartTasks)
    /\ WF_vars(StartSpawnFails \/ StartSpawnOK)
    /\ WF_vars(StartJoin)
    /\ WF_vars(Timeout)
    /\ WF_vars(CtxKill)
    /\ WF_vars(ExpectRead)
    /\ WF_vars(ExpectEnd)
    /\ WF_vars(WaitChild)
    /\ WF_vars(WaitDrain)
    /\ WF_vars(WaitEOF)
    /\ WF_vars(WaitJoin)
    /\ \A i \in 1..MaxTasks : WF_vars(i \in T /\ TaskStep(i))
    /\ \A i \in 1..MaxTasks :
          WF_vars(i \in T /\ TaskLogLine(i) /\ tret'[i] # "scanErr")

\* OptionsFor with any architecture, QEMU command and configurators, some
\* of them grouped in All(...), then Cmdline calls and the first steps of
\* Start, one task being registered.
OptInit ==
    /\ tasks = <<"ctx">>
    /\ vmTimeout = FALSE
    /\ outPlan = 0
    /\ script = <<>>
    /\ pc = "new"
    /\ NotStarted
    /\ arch \in Archs
    /\ \E c \in CmdStrings : env = [TestEnv EXCEPT !.QEMU = c]
    /\ fns \in UNION { [1..n -> FnSet] : n \in 0..MaxFns }
    /\ grouped \in 0..Len(fns)
    /\ opts = SeedOptions(TestEnv)
    /\ fnpos = 0
    /\ applied = <<>>
    /\ optErr = "none"
    /\ argvLog = <<>>
    /\ ncalls = 0
    /\ NewIDAllocator
    /\ NoNetwork

OptNext ==
    \/ OptionsForBegin
    \/ OptionsForApply
    \/ CmdlineCall
    \/ StartCmdlineFails
    \/ StartTasks

OptSpec == OptInit /\ [][OptNext]_vars

\* The paths of the device tests: a directory, a regular file, a path that
\* does not exist.
DirPath == <<"d">>
FilePath == <<"f">>
MissingPath == <<"x">>

\* The device configurators OptionsFor is called with, some of them under
\* IfArch, IfNotArch or ByArch.
DevFnSet ==
    { IDEBlockDevice(FilePath), IDEBlockDevice(<<>>), IDEBlockDevice(MissingPath),
      ReadOnlyDirectory(DirPath), ReadOnlyDirectory(FilePath),
      P9Directory(DirPath, FALSE, <<"t">>), P9Directory(DirPath, FALSE, <<>>),
      P9Directory(DirPath, TRUE, <<>>), P9Directory(<<>>, FALSE, <<"t">>),
      EventChannel(<<"n">>), WithKernel(<<"k">>), FailingFn,
      IfArch(ArchArm, IDEBlockDevice(FilePath)),
      IfNotArch(ArchArm, IDEBlockDevice(FilePath)),
      ByArch([a \in {ArchArm} |-> IDEBlockDevice(FilePath)]),
      IfArch(ArchArm, FailingFn) }

\* OptionsFor, called up to MaxCalls times, for x86_64 or arm with up to
\* MaxDevFns device configurators, some of them grouped in All(...).
DevInit ==
    /\ tasks = <<"ctx">>
    /\ vmTimeout = FALSE
    /\ outPlan = 0
    /\ script = <<>>
    /\ pc = "new"
    /\ NotStarted
    /\ arch \in {"x86_64", ArchArm}
    /\ env = TestEnv
    /\ fns \in UNION { [1..n -> DevFnSet] : n \in 0..MaxDevFns }
    /\ grouped \in 0..Len(fns)
    /\ opts = SeedOptions(TestEnv)
    /\ fnpos = 0
    /\ applied = <<>>
    /\ optErr = "none"
    /\ argvLog = <<>>
    /\ ncalls = 0
    /\ NewIDAllocator
    /\ NoNetwork

DevNext ==
    \/ OptionsForBegin
    \/ OptionsForApply
    \/ OptionsForAgain

DevSpec == DevInit /\ [][DevNext]_vars

\* The configurators OptionsFor is called with when the environment is
\* set.
EnvFnSet ==
    { WithQEMUCommand(<<"c">>), WithKernel(<<"k">>), WithInitramfs(<<"i">>),
      WithAppendKernel(<<"a">>), ArbitraryArgs(<<"-x">>) }

\* OptionsFor with VMTEST_QEMU set, each of VMTEST_KERNEL,
\* VMTEST_INITRAMFS, VMTEST_QEMU_APPEND and VMTEST_KERNEL_APPEND set or not,
\* and up to MaxFns configurators, then Cmdline calls and the first steps
\* of Start.
EnvInit ==
    /\ tasks = <<"ctx">>
    /\ vmTimeout = FALSE
    /\ outPlan = 0
    /\ script = <<>>
    /\ pc = "new"
    /\ NotStarted
    /\ arch = "x86_64"
    /\ env \in [QEMU : { <<"q">> },
                KERNEL : { <<>>, <<"K">> },
                INITRAMFS : { <<>>, <<"I">> },
                QEMU_APPEND : { <<>>, <<"-M", " ", "q35">> },
                KERNEL_APPEND : { <<>>, <<"e">> }]
    /\ fns \in UNION { [1..n -> EnvFnSet] : n \in 0..MaxFns }
    /\ grouped \in 0..Len(fns)
    /\ opts = SeedOptions(TestEnv)
    /\ fnpos = 0
    /\ applied = <<>>
    /\ optErr = "none"
    /\ argvLog = <<>>
    /\ ncalls = 0
    /\ NewIDAllocator
    /\ NoNetwork

EnvSpec == EnvInit /\ [][OptNext]_vars

\* One allocator, new or one that has given out nine ids for "p", and any
\* ID calls on it.
AllocInit ==
    /\ tasks = <<>>
    /\ vmTimeout = FALSE
    /\ outPlan = 0
    /\ script = <<>>
    /\ Configured
    /\ idx0 \in { <<>>, [k \in { <<"p">> } |-> 9] }
    /\ idx = idx0
    /\ idLog = <<>>
    /\ NoNetwork

AllocNext == \E prefix \in Prefixes : ID(prefix)

AllocSpec == AllocInit /\ [][AllocNext]_vars

\* An InterVM network, new or one that has made 254 VMs before, and up to
\* MaxVMs goroutines that each make one more VM on it, with no Opt, with
\* WithMAC(mac) or with WithMAC(nil).
NetInit ==
    /\ tasks = <<>>
    /\ vmTimeout = FALSE
    /\ outPlan = 0
    /\ script = <<>>
    /\ Configured
    /\ NewIDAllocator
    /\ hostnet = [pc |-> "none", fn |-> <<>>, opts |-> <<>>, err |-> Nil]
    /\ numVMs \in {0, 254}
    /\ \E k \in 1..MaxVMs :
          vms \in [1..k -> [pc : {"idle"},
                            nopts : { <<>>, <<WithMAC(<<14, 0, 0, 0, 1, 1>>)>>,
                                      <<WithMAC(<<>>)>> },
                            fn : {<<>>}, opts : {<<>>}]]

NetSpec ==
    NetInit /\ [][\E v \in DOMAIN vms : NewVMCall(v) \/ NewVMConfigure(v)]_vars

\* A VM on a host network: the network of any of some addresses under a
\* mask of any of some lengths, as net.ParseCIDR gives it, or an IPv6
\* network; the Fn is made with no Opt or with WithMAC(mac).
HostInit ==
    /\ tasks = <<>>
    /\ vmTimeout = FALSE
    /\ outPlan = 0
    /\ script = <<>>
    /\ Configured
    /\ NewIDAllocator
    /\ numVMs = 0
    /\ vms = <<>>
    /\ \E a \in { <<192, 168, 0, 0>>, <<192, 168, 0, 250>>,
                   <<10, 0, 255, 250>>, <<10, 255, 255, 251>>,
                   <<255, 255, 255, 255>>, <<172, 16, 5, 100>> },
          ones \in {0, 8, 16, 24, 27, 28, 29, 30, 31, 32},
          nopts \in { <<>>, <<WithMAC(<<14, 0, 0, 0, 1, 1>>)>> } :
          \E nt \in { [IP |-> Mask(a, ones), ones |-> ones],
                       [IP |-> <<32, 1, 13, 184, 0, 0, 0, 0,
                                 0, 0, 0, 0, 0, 0, 0, 0>>, ones |-> 32] } :
             hostnet = [pc |-> "made", fn |-> <<IPv4HostNetwork(nt, nopts)>>,
                        opts |-> <<>>, err |-> Nil]

HostSpec == HostInit /\ [][HostConfigure]_vars

\* A guest program right after EventChannel returned its emitter: the pipe
\* is empty and open, the goroutine scans, nothing is on the device; the
\* program then writes up to MaxRecords lines and closes the emitter.
EmitInit ==
    /\ tasks = <<>>
    /\ vmTimeout = FALSE
    /\ outPlan = 0
    /\ script = <<>>
    /\ Configured
    /\ NewIDAllocator
    /\ NoNetwork

EmitSpec == EmitInit /\ [][Write \/ Close \/ Forward]_vars

\* ------------------------------------------------------------- properties

\* Start returned the spawn error / is past a failed spawn.
SpawnHasFailed == pc \in {"start_join", "start_failed"}

\* Every task returns on context cancellation or on its VMExited
\* notification.
Cooperative == \A i \in T : tasks[i] \in {"ctx", "ctxErr", "exited", "started"}

\* Every task returns once the context is cancelled, VMExited is delivered
\* and the serial sinks are closed.
WaitCooperative == \A i \in T : tasks[i] # "file"

\* C1: after a failed spawn Start returns the spawn error only after every
\* task has returned, a task that waits for ctx.Done() and sets a flag has
\* set it by then, and Start does return when every task returns on context
\* cancellation or on a notification.
C1_StartFailureJoinsAndReturns ==
    /\ [](pc = "start_failed" =>
            /\ startErr = "spawnErr"
            /\ ctxDone
            /\ \A i \in T : tstate[i] = "done"
            /\ \A i \in T : tasks[i] = "ctx" => flag[i])
    /\ (pc = "start_join" /\ Cooperative) ~> (pc = "start_failed")

\* C2: when a Wait has returned, every registered task has returned, and a
\* task that returns only on ctx.Done() has run to its end.
C2_WaitJoinsTasks ==
    Len(waitLog) > 0 =>
        /\ \A i \in T : tstate[i] = "done"
        /\ \A i \in T : tasks[i] \in {"ctx", "ctxErr"} => flag[i]

\* A Wait has returned with a task that waited for ctx.Done().
C2_Witness ==
    /\ Len(waitLog) > 0
    /\ \E i \in T : tasks[i] = "ctx" /\ flag[i]

\* C3: Wait is idempotent: a later call returns what the first call
\* returned, delivers no second VMExited, and does not panic.
C3_WaitIdempotent ==
    /\ pc # "panicked"
    /\ \A k \in 1..Len(waitLog) : waitLog[k].ret = waitLog[1].ret
    /\ \A i \in T : Len(nExited[i].sent) <= 1

\* C4: once tasks were started and Start has failed or Wait has returned,
\* every task's VMExited has received exactly one value, the spawn error or
\* the child's wait result, and is closed.
C4_VMExitedExactlyOnce ==
    (pc = "start_failed" \/ Len(waitLog) > 0) =>
        \A i \in T :
            /\ nExited[i].closed
            /\ nExited[i].sent =
                 << IF pc = "start_failed" THEN "spawnErr" ELSE waitLog[1].child >>

\* C5: after a failed spawn no task's VMStarted is signalled and a
\* WaitVMStarted task has returned without calling its task; the wrapped
\* task is called only when VMStarted was signalled.
C5_WaitVMStartedNeverRunsOnFailure ==
    /\ SpawnHasFailed => \A i \in T : ~nStarted[i]
    /\ \A i \in T : (tasks[i] = "started" /\ flag[i]) => nStarted[i]
    /\ pc = "start_failed" =>
          \A i \in T : tasks[i] = "started" => (tstate[i] = "done" /\ ~flag[i])

\* Start has returned the spawn error with a WaitVMStarted task registered.
C5_Witness ==
    /\ pc = "start_failed"
    /\ \E i \in T : tasks[i] = "started" /\ tstate[i] = "done" /\ ~flag[i]

\* C6: after a failed spawn the serial sinks are closed by the time Start
\* joins the tasks.
C6_SinksClosedOnSpawnFailure ==
    (SpawnHasFailed /\ \E i \in T : tasks[i] = "serial") => sinksClosed

\* C7: after a failed spawn the parent has released the extra files by the
\* time Start joins the tasks.
C7_ExtraFilesClosedOnSpawnFailure ==
    (SpawnHasFailed /\ \E i \in T : tasks[i] = "file") => ~extraOpen

\* The first non-nil error of a list, nil when there is none.
FirstNonNil(es) ==
    IF \A k \in 1..Len(es) : es[k] = Nil THEN Nil
    ELSE es[CHOOSE k \in 1..Len(es) :
                /\ es[k] # Nil
                /\ \A j \in 1..(k - 1) : es[j] = Nil]

\* C8: every Wait that returns returns the first non-nil of cmd.Wait's
\* error, ExpectEOF's error and the task group's error, in this order.
C8_WaitErrorPrecedence ==
    \A k \in 1..Len(waitLog) :
        waitLog[k].ret =
            FirstNonNil(<<waitLog[k].child, waitLog[k].console, waitLog[k].tasks>>)

\* A Wait has returned the console's error although a task failed too.
C8_Witness ==
    \E k \in 1..Len(waitLog) :
        /\ waitLog[k].child = Nil
        /\ waitLog[k].console # Nil
        /\ waitLog[k].tasks # Nil
        /\ waitLog[k].ret = waitLog[k].console

\* C9: a child killed with SIGKILL, by the deadline or by Kill, is surfaced
\* by Wait: the first Wait returns the child's exit error that reflects
\* SIGKILL, and it does return (with a deadline even if the child would
\* never exit by itself), the tasks being ones that return on cancellation,
\* VMExited or the closing of their sink.
C9_KilledChildSurfaces ==
    /\ []((Len(waitLog) > 0 /\ childStatus = "killed") =>
              waitLog[1].ret = "killed")
    /\ (/\ pc = "wait_child"
        /\ waitCalls = 1
        /\ vmTimeout \/ childStatus = "killed"
        /\ WaitCooperative) ~> (Len(waitLog) > 0)

\* Wait has returned the SIGKILL error of a child that the deadline killed,
\* although the console and a task failed too.
C9_Witness ==
    /\ Len(waitLog) > 0
    /\ childStatus = "killed"
    /\ ~killCalled
    /\ waitLog[1].console # Nil
    /\ waitLog[1].tasks # Nil
    /\ waitLog[1].ret = "killed"

\* C10: when Start has returned a VM the parent no longer holds the child
\* side of the console PTY, and an Expect call that is pending when the
\* child has exited returns.
C10_ExpectUnblocksOnChildExit ==
    /\ [](startErr = Nil => ~ttyParent)
    /\ (pc = "expect" /\ child = "exited") ~> (pc # "expect")

\* An Expect call whose pattern never matched has returned an error before
\* any Wait: the child's exit ended it.
C10_Witness ==
    /\ child = "exited"
    /\ waitCalls = 0
    /\ expectRes = <<"error">>

\* C11: a first Wait of a caller that never called Expect returns when the
\* guest runs to its end, however much the guest writes to its console (the
\* tasks being ones that return on cancellation, VMExited or the closing of
\* their sink).
C11_WaitReturnsWhenOutputFillsConsole ==
    (/\ pc = "wait_child"
     /\ waitCalls = 1
     /\ expectRes = <<>>
     /\ WaitCooperative) ~> (Len(waitLog) > 0)

\* The guest's lines are events and then one done.
CleanScript ==
    /\ Len(script) > 0
    /\ script[Len(script)] = "done"
    /\ \A k \in 1..(Len(script) - 1) : script[k] = "ev"

\* The guest has written every line of a clean script, and the reader task
\* was started on the channel.
CleanRun ==
    /\ CleanScript
    /\ emitted = Len(script)
    /\ \E i \in T : tasks[i] = "reader" /\ flag[i]

\* The events of a clean script, in the order of emission.
AllEvents == [k \in 1..(Len(script) - 1) |-> k]

\* The VM was configured with EventChannelCallback.
HasDrain == \E d \in T : tasks[d] = "drain"

ClosedAtEOFWithoutDone(i) ==
    /\ tasks[i] = "reader"
    /\ flag[i]
    /\ tstate[i] = "done"
    /\ ~gotDone
    /\ rdpos > 0 => script[rdpos] # "junk"

\* C13 as stated: whenever the channel was closed at the end of the stream
\* without done, Wait returns the missing-done-event error.
C13_MissingDoneReturned ==
    \A i \in T :
        (Len(waitLog) > 0 /\ ClosedAtEOFWithoutDone(i)) =>
            waitLog[1].ret = "missingDone"

\* C13, amended: when the channel was closed at the end of the stream
\* without done, the reader task has returned the missing-done-event error,
\* and Wait returns it if the child's exit error and the console's error are
\* nil and no other task has returned an error.
C13_MissingDoneUnlessPrecedence ==
    \A i \in T :
        ClosedAtEOFWithoutDone(i) =>
            /\ tret[i] = "missingDone"
            /\ events.closes = 1
            /\ (/\ Len(waitLog) > 0
                /\ waitLog[1].child = Nil
                /\ waitLog[1].console = Nil
                /\ \A j \in T \ {i} : tret[j] = Nil)
               => waitLog[1].ret = "missingDone"

\* Wait has returned the missing-done-event error: the guest exited with
\* status 0 after an event and without done.
C13_Witness ==
    /\ Len(waitLog) > 0
    /\ script = <<"ev">>
    /\ delivered = <<1>>
    /\ childStatus = "ok"
    /\ \E i \in T : ClosedAtEOFWithoutDone(i)
    /\ waitLog[1].ret = "missingDone"

\* C14: the channel is closed at most once and nothing is sent on it after
\* it was closed, whatever lines the guest sends.
C14_ClosedOnceNoLateSend ==
    /\ events.closes <= 1
    /\ ~events.lateSend

\* C15: with EventChannelCallback and a failed spawn, Start returns the
\* spawn error: the drain task returns on the cancellation, the reader
\* returns without reading, no callback is invoked.
C15_CallbackTasksEndOnSpawnFailure ==
    /\ []((pc = "start_failed" /\ HasDrain) =>
            /\ startErr = "spawnErr"
            /\ delivered = <<>>
            /\ \A i \in T : tstate[i] = "done"
            /\ \A i \in T : tasks[i] = "reader" => (tret[i] = Nil /\ ~flag[i]))
    /\ (pc = "start_join" /\ HasDrain) ~> (pc = "start_failed")

\* Start has returned the spawn error of a VM with EventChannelCallback.
C15_Witness ==
    /\ pc = "start_failed"
    /\ HasDrain
    /\ \A i \in T : tasks[i] = "drain" => tret[i] = "canceled"

\* C16: with EventChannelCallback, a guest that emitted events and then
\* done and exited with status 0: when the drain task has returned the
\* callback was invoked for every event, in order, and Wait returns nil.
C16_CallbackForEveryEvent ==
    /\ (/\ HasDrain
        /\ CleanRun
        /\ ~vmTimeout
        /\ childStatus = "ok"
        /\ \E d \in T : tasks[d] = "drain" /\ tstate[d] = "done")
       => delivered = AllEvents
    /\ (/\ HasDrain
        /\ CleanRun
        /\ Len(waitLog) > 0
        /\ waitLog[1].child = Nil
        /\ waitLog[1].console = Nil)
       => waitLog[1].ret = Nil

\* The position in fns of the first configurator that returns an error, 0
\* when there is none.
FirstFail ==
    LET bad == { k \in 1..Len(fns) : fns[k].op = "fail" }
    IN  IF bad = {} THEN 0 ELSE CHOOSE k \in bad : \A j \in bad : k <= j

\* OptionsFor has returned Options.
OptionsReturned == pc \notin {"new", "options", "options_failed"}

\* C17: the configurators are invoked in the order given, those inside
\* All(...) too, and none after the first one that returns an error;
\* OptionsFor then returns that error and no Options, and it returns Options
\* only when every configurator was invoked and none returned an error.
C17_ConfiguratorsInOrderUntilError ==
    /\ \A k \in 1..Len(applied) : applied[k] = k
    /\ FirstFail # 0 => Len(applied) <= FirstFail
    /\ (pc = "options_failed" /\ arch \in SupportedGuestArches) =>
          /\ FirstFail # 0
          /\ Len(applied) = FirstFail
          /\ optErr = "fnErr"
          /\ argvLog = <<>>
          /\ startErr = "none"
    /\ OptionsReturned =>
          /\ FirstFail = 0
          /\ Len(applied) = Len(fns)
          /\ optErr = Nil

\* OptionsFor has returned the error of the first configurator of an
\* All(...) of two, and the second one was not invoked.
C17_Witness ==
    /\ pc = "options_failed"
    /\ grouped = 2
    /\ fns[1].op = "fail"
    /\ applied = <<1>>
    /\ optErr = "fnErr"

\* Options has kernel arguments and no kernel.
ArgsWithoutKernel == Len(opts.KernelArgs) # 0 /\ Len(opts.Kernel) = 0

\* C18: appending kernel arguments never fails in OptionsFor; with kernel
\* arguments and no kernel every Cmdline call fails with
\* kernel-required-for-args and Start returns that error with no task
\* started, no console and no child; an argv with "-append" has "-kernel".
C18_KernelArgsRequireKernel ==
    /\ pc = "options_failed" =>
          optErr \in {"noGuestArch", "unsupportedGuestArch", "fnErr"}
    /\ (OptionsReturned /\ ArgsWithoutKernel) =>
          /\ \A k \in 1..Len(argvLog) :
                argvLog[k] = [args |-> <<>>, err |-> "kernelRequiredForArgs"]
          /\ pc \in {"configured", "start_failed"}
          /\ pc = "start_failed" =>
                /\ startErr = "kernelRequiredForArgs"
                /\ \A i \in T : tstate[i] = "idle"
                /\ child = "none"
                /\ ~ttyParent
                /\ ~ctxDone
    /\ \A k \in 1..Len(argvLog) :
          LET a == argvLog[k].args
          IN  (\E j \in 1..Len(a) : a[j] = <<"-append">>) =>
              (\E j \in 1..Len(a) : a[j] = <<"-kernel">>)

\* Start has returned kernel-required-for-args for Options whose kernel
\* arguments a configurator appended, a task being registered.
C18_Witness ==
    /\ pc = "start_failed"
    /\ startErr = "kernelRequiredForArgs"
    /\ T # {}
    /\ \E k \in 1..Len(fns) : fns[k].op = "WithAppendKernel"
    /\ Len(argvLog) > 0

\* The maximal runs of non-space symbols of s, as pairs of positions.
Runs(s) ==
    { r \in (1..Len(s)) \X (1..Len(s)) :
        /\ r[1] <= r[2]
        /\ \A k \in r[1]..r[2] : s[k] # " "
        /\ r[1] = 1 \/ s[r[1] - 1] = " "
        /\ r[2] = Len(s) \/ s[r[2] + 1] = " " }

\* The arguments of the ArbitraryArgs configurators among f, in order.
RECURSIVE ArgsOf(_)
ArgsOf(f) ==
    IF f = <<>> THEN <<>>
    ELSE (IF Head(f).op = "ArbitraryArgs" THEN <<Head(f).arg>> ELSE <<>>)
         \o ArgsOf(Tail(f))

\* C19: a Cmdline call leaves Options as they are, all calls return the
\* same, and an argv is the fields of QEMUCommand in order, then QEMUArgs
\* ("-nographic" and the configurators' arguments in the order of the
\* configurators), then "-kernel" and the kernel if set, "-append" and the
\* kernel arguments if set, "-initrd" and the initramfs if set.
C19_CmdlineIsPure ==
    /\ [][pc = "configured" => opts' = opts]_vars
    /\ [](\A k \in 1..Len(argvLog) : argvLog[k] = argvLog[1])
    /\ [](OptionsReturned =>
            opts.QEMUArgs = << <<"-nographic">> >> \o ArgsOf(fns))
    /\ [](\A k \in 1..Len(argvLog) :
            argvLog[k].err = Nil =>
              LET a == argvLog[k].args
                  c == opts.QEMUCommand
                  nw == Cardinality(Runs(c))
                  nq == Len(opts.QEMUArgs)
              IN  /\ Len(a) >= nw + nq
                  /\ \A r \in Runs(c) :
                        a[1 + Cardinality({ q \in Runs(c) : q[1] < r[1] })]
                          = SubSeq(c, r[1], r[2])
                  /\ \A j \in 1..nq : a[nw + j] = opts.QEMUArgs[j]
                  /\ SubSeq(a, nw + nq + 1, Len(a)) =
                        (IF opts.Kernel # <<>>
                         THEN << <<"-kernel">>, opts.Kernel >> ELSE <<>>)
                        \o (IF opts.KernelArgs # <<>>
                            THEN << <<"-append">>, opts.KernelArgs >> ELSE <<>>)
                        \o (IF opts.Initramfs # <<>>
                            THEN << <<"-initrd">>, opts.Initramfs >> ELSE <<>>))

\* Two Cmdline calls have returned the argv of a two-word QEMU command, a
\* kernel and kernel arguments.
C19_Witness ==
    /\ Len(argvLog) = 2
    /\ argvLog[2].err = Nil
    /\ argvLog[1].args = << <<"q">>, <<"q">>, <<"-nographic">>, <<"-kernel">>,
                            <<"k">>, <<"-append">>, <<"a">> >>

\* s without its trailing decimal digits.
Normalized(s) ==
    SubSeq(s, 1, CHOOSE n \in 0..Len(s) :
                    /\ \A k \in (n + 1)..Len(s) : IsDigit(s[k])
                    /\ n = 0 \/ ~IsDigit(s[n]))

\* C20: each ID call returns the normalized form of its prefix followed by
\* the decimal number of the earlier calls whose prefixes have the same
\* normalized form (counted from 0 for a new allocator), whatever the other
\* calls and whatever digits the caller appended.
C20_IDsCountPerNormalizedPrefix ==
    \A j \in 1..Len(idLog) :
        LET norm == Normalized(idLog[j].prefix)
            earlier == { k \in 1..(j - 1) : Normalized(idLog[k].prefix) = norm }
        IN  idLog[j].id = norm \o Itoa(Lookup(idx0, norm) + Cardinality(earlier))

\* A new allocator has returned p0 for "p", 0 for the empty prefix and p1
\* for "p0".
C20_Witness ==
    /\ idx0 = <<>>
    /\ Len(idLog) = 3
    /\ idLog[1] = [prefix |-> <<"p">>, id |-> <<"p", "0">>]
    /\ idLog[2] = [prefix |-> <<>>, id |-> <<"0">>]
    /\ idLog[3] = [prefix |-> <<"p", "0">>, id |-> <<"p", "1">>]

\* C21: no two ids returned by one allocator are equal, whatever the
\* prefixes of the calls: prefixes that end in digits, that are digits only
\* or that are empty included.
C21_IDsUnique ==
    \A j, k \in 1..Len(idLog) : j # k => idLog[j].id # idLog[k].id

\* An allocator that had counted nine ids for "p" has returned ids for a
\* prefix of digits only, a prefix that ends in a digit and the empty
\* prefix.
C21_Witness ==
    /\ idx0 # <<>>
    /\ Len(idLog) = 3
    /\ idLog[1].prefix = <<"0", "0">>
    /\ idLog[2].prefix = <<"p", "0">>
    /\ idLog[3].prefix = <<>>

\* The configurator that f comes down to for the current architecture:
\* the one under IfArch, IfNotArch or ByArch when its predicate holds.
Under(f) ==
    IF f.op \in {"IfArch", "IfNotArch", "ByArch"}
    THEN IF IfArchHolds(f, arch) THEN Selected(f, arch)
         ELSE [op |-> "none", arg |-> <<>>]
    ELSE f

\* The "file=" values of the configurators among f that allocate a drive,
\* in order.
RECURSIVE DriveFilesOf(_)
DriveFilesOf(f) ==
    IF f = <<>> THEN <<>>
    ELSE LET u == Under(Head(f))
         IN  (IF u.op = "IDEBlockDevice" /\ u.arg # <<>> THEN <<u.arg>>
              ELSE IF u.op = "ReadOnlyDirectory" /\ u.arg # <<>>
              THEN << <<"fat:rw:">> \o u.arg >>
              ELSE <<>>)
             \o DriveFilesOf(Tail(f))

\* The positions of the "-drive" arguments of the Options.
DrivePositions ==
    { j \in 1..Len(opts.QEMUArgs) : opts.QEMUArgs[j] = <<"-drive">> }

\* C22: in the Options that one OptionsFor call returns, the k-th
\* configurator that allocates a drive (IDEBlockDevice or
\* ReadOnlyDirectory) has appended a group of -drive, ich9-ahci and ide-hd
\* arguments with the ids drive<k-1> and ahci<k-1>, the ide-hd device
\* naming the ids of its own group, the groups being in the order of the
\* pipeline; a later OptionsFor call counts from 0 again.
C22_DriveGroupsNumberedInOrder ==
    OptionsReturned =>
        LET q == opts.QEMUArgs
            files == DriveFilesOf(fns)
        IN  /\ Cardinality(DrivePositions) = Len(files)
            /\ \A j \in DrivePositions :
                  LET k == Cardinality({ i \in DrivePositions : i < j }) + 1
                      drive == <<"drive">> \o Itoa(k - 1)
                      ahci == <<"ahci">> \o Itoa(k - 1)
                  IN  /\ j + 5 <= Len(q)
                      /\ q[j + 1] = <<"file=">> \o files[k]
                                      \o <<",if=none,id=">> \o drive
                      /\ q[j + 2] = <<"-device">>
                      /\ q[j + 3] = <<"ich9-ahci,id=">> \o ahci
                      /\ q[j + 4] = <<"-device">>
                      /\ q[j + 5] = <<"ide-hd,drive=">> \o drive
                                      \o <<",bus=">> \o ahci \o <<".0">>

\* The second OptionsFor call has returned Options with two drive groups,
\* one of ReadOnlyDirectory and one of IDEBlockDevice.
C22_Witness ==
    /\ pc = "configured"
    /\ ncalls = 2
    /\ fns = <<ReadOnlyDirectory(DirPath), IDEBlockDevice(FilePath)>>
    /\ Cardinality(DrivePositions) = 2

\* The positions of the "-chardev" arguments of the Options.
ChardevPositions ==
    { j \in 1..Len(opts.QEMUArgs) : opts.QEMUArgs[j] = <<"-chardev">> }

ArchPredicate(f) ==
    \/ f.op = "IfArch" /\ arch = f.arch
    \/ f.op = "IfNotArch" /\ arch # f.arch
    \/ f.op = "ByArch" /\ \E a \in DOMAIN f.arg : a = arch

\* C24: IfArch, IfNotArch and ByArch apply their configurator exactly when
\* the architecture predicate holds, with its effect on the Options and
\* the allocator and with its error; otherwise they leave the Options and
\* the allocator as they are and return no error. Of IfArch(a, c) and
\* IfNotArch(a, c) in one pipeline exactly one applies c.
C24_ArchCombinators ==
    /\ [][(pc = "options"
            /\ TopFn(fnpos + 1).op \in {"IfArch", "IfNotArch", "ByArch"}) =>
           LET f == TopFn(fnpos + 1)
               c == IF f.op = "ByArch" THEN f.arg[arch] ELSE f.arg
               r == Apply(c, opts, idx, arch)
           IN  IF ArchPredicate(f)
               THEN /\ opts' = r.opts
                    /\ idx' = r.idx
                    /\ (pc' = "options_failed") = (r.err # Nil)
                    /\ r.err # Nil => optErr' = r.err
               ELSE /\ opts' = opts
                    /\ idx' = idx
                    /\ pc' # "options_failed"]_vars
    /\ []((/\ OptionsReturned
            /\ Len(fns) = 2
            /\ fns[1].op = "IfArch"
            /\ fns[2] = IfNotArch(fns[1].arch, fns[1].arg)) =>
           /\ opts = Apply(fns[1].arg, SeedOptions(env), <<>>, arch).opts
           /\ idx = Apply(fns[1].arg, SeedOptions(env), <<>>, arch).idx)

\* OptionsFor for x86_64 has returned Options with one drive group, its
\* configurator being given under IfArch(arm) and under IfNotArch(arm).
C24_Witness ==
    /\ pc = "configured"
    /\ arch = "x86_64"
    /\ fns = << IfArch(ArchArm, IDEBlockDevice(FilePath)),
                IfNotArch(ArchArm, IDEBlockDevice(FilePath)) >>
    /\ grouped = 0
    /\ idx # <<>>

\* C25: OptionsFor checks the architecture before it invokes a
\* configurator: with no architecture it returns no-guest-arch, with an
\* unknown one unsupported-arch, in both cases no Options and without
\* having invoked a configurator; a configurator is only ever invoked for
\* a supported architecture.
C25_ArchCheckedBeforeConfigurators ==
    /\ (pc # "new" /\ arch \notin SupportedGuestArches) =>
          /\ pc = "options_failed"
          /\ optErr = (IF arch = "" THEN "noGuestArch"
                       ELSE "unsupportedGuestArch")
          /\ applied = <<>>
          /\ fnpos = 0
          /\ opts = SeedOptions(env)
          /\ idx = <<>>
          /\ argvLog = <<>>
          /\ startErr = "none"
    /\ (applied # <<>> \/ fnpos > 0 \/ OptionsReturned) =>
          arch \in SupportedGuestArches
    /\ optErr \in {"noGuestArch", "unsupportedGuestArch"} =>
          arch \notin SupportedGuestArches

\* OptionsFor, given two configurators and an unknown architecture, has
\* returned unsupported-arch.
C25_Witness ==
    /\ pc = "options_failed"
    /\ arch = "m68k"
    /\ Len(fns) = 2
    /\ optErr = "unsupportedGuestArch"

\* The error the path of the device configurator u calls for: invalid-dir
\* for an empty path, is-not-dir for a regular file given as a directory,
\* not-found for a path that does not exist.
PathError(u) ==
    IF u.op \notin {"IDEBlockDevice", "ReadOnlyDirectory", "P9Directory"}
    THEN Nil
    ELSE IF u.arg = <<>> THEN "invalidDir"
    ELSE IF u.arg = MissingPath THEN "notFound"
    ELSE IF u.arg = FilePath /\ u.op # "IDEBlockDevice" THEN "isNotDir"
    ELSE Nil

\* C26: ReadOnlyDirectory, IDEBlockDevice and P9Directory check their path
\* when they are invoked: an empty path, a regular file given as a
\* directory and a path that does not exist make the configurator return
\* invalid-dir, is-not-dir and not-found; OptionsFor then returns that
\* error and no Options, and invokes no further configurator.
C26_DevicePathsValidated ==
    \A k \in 1..Len(applied) :
        PathError(Under(fns[k])) # Nil =>
            /\ pc = "options_failed"
            /\ optErr = PathError(Under(fns[k]))
            /\ Len(applied) = k

\* The P9Directory configurators among f that have a directory, in order.
RECURSIVE P9sOf(_)
P9sOf(f) ==
    IF f = <<>> THEN <<>>
    ELSE LET u == Under(Head(f))
         IN  (IF u.op = "P9Directory" /\ u.arg # <<>> THEN <<u>> ELSE <<>>)
             \o P9sOf(Tail(f))

\* The mount tag of the P9Directory configurator u.
TagOf(u) ==
    IF u.boot THEN <<"/dev/root">>
    ELSE IF u.tag = <<>> THEN <<"tmpdir">> ELSE u.tag

\* The positions of the "-fsdev" arguments of the Options.
FsdevPositions ==
    { j \in 1..Len(opts.QEMUArgs) : opts.QEMUArgs[j] = <<"-fsdev">> }

\* Each P9Directory with a directory has appended a -fsdev argument and a
\* -device argument that name the same fsdev id, the device having
\* mount_tag=<tag> and being virtio-9p-device for arm and virtio-9p-pci for
\* every other architecture.
P9QEMUArgs ==
    LET q == opts.QEMUArgs
        p9s == P9sOf(fns)
    IN  /\ Cardinality(FsdevPositions) = Len(p9s)
        /\ \A j \in FsdevPositions :
              LET k == Cardinality({ i \in FsdevPositions : i < j }) + 1
                  u == p9s[k]
                  nb == Cardinality({ i \in 1..(k - 1) : ~p9s[i].boot })
                  id == IF u.boot THEN <<"rootdrv">>
                        ELSE <<"fsdev">> \o Itoa(nb)
              IN  /\ j + 3 <= Len(q)
                  /\ q[j + 1] = <<"local,id=">> \o id \o <<",path=">> \o u.arg
                                  \o <<",security_model=mapped-file">>
                  /\ q[j + 2] = <<"-device">>
                  /\ q[j + 3] =
                        (IF arch = "arm" THEN <<"virtio-9p-device">>
                         ELSE <<"virtio-9p-pci">>)
                        \o <<",fsdev=">> \o id \o <<",mount_tag=">> \o TagOf(u)

\* The kernel arguments of the P9Directory configurators p9s, one after
\* the other: VMTEST_SHARED_DIR=<tag> each if shared, else what the boot
\* volume needs or UROOT_USE_9P=1.
RECURSIVE P9KernelArgs(_, _)
P9KernelArgs(p9s, shared) ==
    IF p9s = <<>> THEN <<>>
    ELSE LET u == p9s[Len(p9s)]
             before == P9KernelArgs(SubSeq(p9s, 1, Len(p9s) - 1), shared)
             mine == IF shared THEN <<"VMTEST_SHARED_DIR=">> \o TagOf(u)
                     ELSE IF u.boot
                     THEN <<"devtmpfs.mount=1", " ", "root=/dev/root", " ",
                            "rootfstype=9p", " ",
                            "rootflags=trans=virtio,version=9p2000.L">>
                     ELSE <<"UROOT_USE_9P=1">>
         IN  IF before = <<>> THEN mine ELSE before \o <<" ">> \o mine

RECURSIVE LastSet(_, _, _)
LastSet(f, op, seed) ==
    IF f = <<>> THEN seed
    ELSE IF f[Len(f)].op = op THEN f[Len(f)].arg
    ELSE LastSet(SubSeq(f, 1, Len(f) - 1), op, seed)

\* base and the arguments of the WithAppendKernel configurators among f,
\* in order, with a space between two of them.
RECURSIVE KernelArgsOf(_, _)
KernelArgsOf(f, base) ==
    IF f = <<>> THEN base
    ELSE LET b == KernelArgsOf(SubSeq(f, 1, Len(f) - 1), base)
             u == f[Len(f)]
         IN  IF u.op # "WithAppendKernel" THEN b
             ELSE IF b = <<>> THEN u.arg ELSE b \o <<" ">> \o u.arg

\* C28: the QEMU command, kernel and initramfs that configurators set
\* replace the ones of the environment; the arguments of
\* VMTEST_QEMU_APPEND come directly after "-nographic" and before the
\* QEMU arguments of the configurators; the arguments of
\* VMTEST_KERNEL_APPEND come before the kernel arguments of the
\* configurators.
C28_EnvSeedsAndAppends ==
    OptionsReturned =>
        /\ opts.QEMUCommand = LastSet(fns, "WithQEMUCommand", env.QEMU)
        /\ opts.Kernel = LastSet(fns, "WithKernel", env.KERNEL)
        /\ opts.Initramfs = LastSet(fns, "WithInitramfs", env.INITRAMFS)
        /\ opts.QEMUArgs = << <<"-nographic">> >> \o Fields(env.QEMU_APPEND)
                             \o ArgsOf(fns)
        /\ opts.KernelArgs = KernelArgsOf(fns, env.KERNEL_APPEND)

\* The Cleanup tasks.
Cleanups == { i \in T : tasks[i] \in {"cleanup", "cleanupErr"} }

\* Start has returned the spawn error, or a Wait has returned.
StartOrWaitReturned == pc = "start_failed" \/ Len(waitLog) > 0

HasServeHTTP == \E i \in T : tasks[i] = "serve"

\* C30: with ServeHTTP configured both of its tasks end on every path on
\* which the tasks are joined: when the child never starts the shutdown
\* task goes on at the context's cancellation (or at VMExited), closes the
\* listener and the server, the serve task returns, and Start returns the
\* spawn error; the serve task returns only after that close; and Wait's
\* join ends as well.
C30_ServeHTTPTasksTerminate ==
    /\ []((HasServeHTTP /\ StartOrWaitReturned) =>
             /\ \A i \in T : tstate[i] = "done"
             /\ listener = "closed")
    /\ []((HasServeHTTP /\ pc = "start_failed") => startErr = "spawnErr")
    /\ [](\A i \in T :
             (tasks[i] = "serve" /\ tstate[i] = "done") =>
                 /\ listener = "closed"
                 /\ \E j \in T : tasks[j] = "shutdown" /\ tstate[j] = "done")
    /\ (HasServeHTTP /\ pc = "start_join") ~> (pc = "start_failed")
    /\ (HasServeHTTP /\ pc = "wait_join") ~> (pc = "waited")

\* Start has returned the spawn error with ServeHTTP configured, no
\* VMExited having been delivered.
C30_Witness ==
    /\ HasServeHTTP
    /\ pc = "start_failed"
    /\ listener = "closed"
    /\ \A i \in T : nExited[i].sent = <<>> /\ ~nExited[i].closed

\* The VMs whose NewVM call has returned, the ordinal each got, and the
\* number of VMs made on the network before the first of them.
Made == { v \in DOMAIN vms : vms[v].pc # "idle" }
Ordinal(v) == vms[v].fn[1].num
MadeBefore == numVMs - Cardinality(Made)

\* The last byte of the default MAC address of the ordinals 0, 1, 2, 254,
\* 255, 256, 257, as the guest shows it.
LastMACByte(num) ==
    CASE num = 0 -> <<"0", "0">> [] num = 1 -> <<"0", "1">>
      [] num = 2 -> <<"0", "2">> [] num = 254 -> <<"f", "e">>
      [] num = 255 -> <<"f", "f">> [] num = 256 -> <<"0", "0">>
      [] num = 257 -> <<"0", "1">> [] num = 258 -> <<"0", "2">>

\* VM v keeps the default MAC address.
KeepsDefaults(v) ==
    \A j \in 1..Len(vms[v].nopts) :
        vms[v].nopts[j].op = "WithMAC" /\ vms[v].nopts[j].arg = <<>>

\* C31: in every interleaving of the NewVM calls on one network, the calls
\* that have returned got the ordinals that follow the VMs made before, with
\* no duplicate and no gap (0..k-1 on a new network); a VM is configured as
\* the listening server exactly if its ordinal is 0, so at most one is, and
\* every other VM connects to the same socket; the default MAC address of a
\* VM is 0e:00:00:00:00:xx, xx its ordinal's low byte.
C31_OrdinalsRolesAndMACs ==
    /\ \A v \in Made : \A w \in Made : v # w => Ordinal(v) # Ordinal(w)
    /\ { Ordinal(v) : v \in Made } = MadeBefore .. (numVMs - 1)
    /\ \A v \in DOMAIN vms :
          vms[v].pc = "configured" =>
            LET args == vms[v].opts[1].QEMUArgs
            IN  /\ Len(args) = 5
                /\ args[4] = <<"-netdev">>
                /\ args[5] = <<"stream,id=">> \o <<"vm">> \o <<"0">>
                               \o <<",server=">>
                               \o (IF Ordinal(v) = 0 THEN <<"true">>
                                   ELSE <<"false">>)
                               \o <<",addr.type=unix,addr.path=">>
                               \o <<"intervm.socket">>
                /\ args[2] = <<"-device">>
                /\ KeepsDefaults(v) =>
                      args[3] = <<"e1000">> \o <<",netdev=">> \o <<"vm">>
                                 \o <<"0">> \o <<",mac=">>
                                 \o <<"0", "e", ":", "0", "0", ":", "0", "0",
                                      ":", "0", "0", ":", "0", "0", ":">>
                                 \o LastMACByte(Ordinal(v))
    /\ Cardinality({ v \in DOMAIN vms :
                       /\ vms[v].pc = "configured"
                       /\ \E j \in 1..Len(vms[v].opts[1].QEMUArgs) :
                             \E k \in 1..Len(vms[v].opts[1].QEMUArgs[j]) :
                                vms[v].opts[1].QEMUArgs[j][k] = "true" }) <= 1

\* MaxVMs VMs are configured on a new network, the one made last keeping
\* the default MAC address.
C31_Witness ==
    /\ numVMs = MaxVMs
    /\ \A v \in DOMAIN vms : vms[v].pc = "configured"
    /\ \E v \in DOMAIN vms : Ordinal(v) = MaxVMs - 1 /\ KeepsDefaults(v)
    /\ \E v \in DOMAIN vms : Ordinal(v) = 0

\* C32: whenever a value has been sent on a task's VMExited, that task's
\* VMStarted is closed already, the child has exited and cmd.Wait has
\* returned in Wait, and the one value sent is cmd.Wait's error for the
\* child's wait status; a task that has received from VMExited was given no
\* other; and the Wait that sent it returns that value when ExpectEOF and
\* the tasks produced no error.
C32_NotificationOrder ==
    /\ \A i \in T :
          nExited[i].sent # <<>> =>
            /\ nStarted[i]
            /\ child = "exited"
            /\ cmdWaited
            /\ waitCalls > 0
            /\ nExited[i].sent = <<ExitErr(childStatus)>>
    /\ \A i \in T :
          tasks[i] = "exited" /\ tstate[i] = "done" =>
            nExited[i].sent # <<>> /\ nExited[i].buf = <<>>
    /\ \A i \in T :
          Len(waitLog) > 0 /\ waitLog[1].console = Nil /\ waitLog[1].tasks = Nil
            => nExited[i].sent = <<waitLog[1].ret>>

\* A task has received from VMExited the error of a child that exited with
\* a non-zero status, and Wait has returned that error.
C32_Witness ==
    /\ Len(waitLog) > 0
    /\ waitLog[1].ret = "exit1"
    /\ \E i \in T :
          /\ tasks[i] = "exited"
          /\ tstate[i] = "done"
          /\ nExited[i].sent = <<"exit1">>
          /\ nStarted[i]

\* C33: once the context is cancelled and the child has exited, the reader
\* task of the event channel returns (unless the process panics first),
\* whether or not anybody still receives from the channel, and a Wait that
\* joins the tasks returns.
C33_ReaderReturnsAfterCancel ==
    /\ (ctxDone /\ child = "exited")
          ~> (~Alive \/ \A i \in T : tasks[i] = "reader" => tstate[i] = "done")
    /\ (pc = "wait_join") ~> (pc \in {"waited", "panicked"})

\* C34: when Start has returned the spawn error or Wait has returned, the
\* tasks being joined, the channel of the event channel is closed, so a
\* receiver ranging over it ends.
C34_EventsClosedOnEveryPath ==
    pc \in {"start_failed", "waited"} => events.closes > 0

\* C35: the supervisor is never blocked in a broadcast, whatever the tasks
\* do: when cmd.Start is about to succeed, Start can close every VMStarted
\* and return the VM; when cmd.Wait has returned (or would fail at once),
\* Wait can go on past the sends on VMExited.
C35_BroadcastNeverBlocks ==
    /\ (pc = "start_spawn" /\ ~ctxDone) => ENABLED StartSpawnOK
    /\ (pc = "wait_child" /\ (cmdWaited \/ child = "exited"))
          => ENABLED WaitChild

\* Wait is past the broadcast of VMExited while no task has received the
\* value: one task waits for the context only, the other has not run yet.
C35_Witness ==
    /\ pc = "wait_eof"
    /\ tasks = <<"ctx", "exited">>
    /\ \A i \in T : tstate[i] = "blocked" /\ Len(nExited[i].buf) = 1

\* C36: the serial sinks are closed only by Wait, after ExpectEOF has read
\* the console to its end: when they are closed the child has exited, Wait
\* has reaped it, and no byte the child wrote is left unread, every byte
\* read from the console having been written to every sink by the read.
C36_SinksClosedAfterDrain ==
    sinksClosed =>
        /\ child = "exited"
        /\ cmdWaited
        /\ waitCalls > 0
        /\ buf = 0

\* The sinks are closed after a guest wrote MaxOut bytes, which a task
\* reads from its sink, and exited.
C36_Witness ==
    /\ sinksClosed
    /\ written = MaxOut
    /\ outPlan = MaxOut
    /\ \E i \in T : tasks[i] = "serial"

\* C37: a Wait that is called with a LogSerialByLine task registered
\* returns once the child has exited, also when the task has returned on a
\* scanner error and output of the guest is still unread; it then reports
\* the task's error when the child and the console gave none.
C37_WaitReturnsWhenSinkReaderStopped ==
    /\ (pc \in {"wait_child", "wait_eof", "wait_join"} /\ child = "exited")
          ~> (pc \in {"waited", "panicked"})
    /\ [](\A k \in 1..Len(waitLog) :
             (waitLog[k].child = Nil /\ waitLog[k].console = Nil)
               => waitLog[k].ret = waitLog[k].tasks)

\* The JSON of the guestevent of record k, the JSON of the done event and a
\* newline, as writes on the serial device.
EventJSON(k) == <<"guestevent", k>>
DoneJSON == <<"done", 0>>
Newline == <<"\n", 0>>

\* The lines of the serial device so far: what was written between the
\* newlines, and what was written after the last newline.
RECURSIVE Lines(_)
Lines(w) ==
    IF \A j \in 1..Len(w) : w[j] # Newline THEN <<w>>
    ELSE LET n == CHOOSE j \in 1..Len(w) :
                    w[j] = Newline /\ \A k \in 1..(j - 1) : w[k] # Newline
         IN  <<SubSeq(w, 1, n - 1)>> \o Lines(SubSeq(w, n + 1, Len(w)))

\* C38: on the serial device every line is one event written whole (the
\* line being written may still be empty), nothing follows the line of the
\* done event, and when Close has returned the device holds the guestevent
\* lines of the records written, in order, then the done line.
C38_DoneLastLinesWhole ==
    /\ \A j \in 1..Len(Lines(serial)) :
          Len(Lines(serial)[j]) <= 1 /\ (j < Len(Lines(serial)) => Len(Lines(serial)[j]) = 1)
    /\ \A j \in 1..Len(Lines(serial)) :
          Lines(serial)[j] = <<DoneJSON>> =>
             \A k \in (j + 1)..Len(Lines(serial)) : Lines(serial)[k] = <<>>
    /\ epc.pc = "closed" =>
          serial = [j \in 1..(2 * epc.n + 2) |->
                      IF j % 2 = 0 THEN Newline
                      ELSE IF j = 2 * epc.n + 1 THEN DoneJSON
                      ELSE EventJSON((j + 1) \div 2)]

\* The address n after ip, counted as a number of 32 bits: the low 24 bits
\* are added to, and what they carry goes to the first byte.
IPPlus(ip, n) ==
    LET low == ip[2] * 65536 + ip[3] * 256 + ip[4] + n
        l == low % 16777216
    IN  << (ip[1] + (low \div 16777216)) % 256, l \div 65536,
           (l \div 256) % 256, l % 256 >>

\* ip is an address of the network nt.
InNetwork(nt, ip) == Mask(ip, nt.ones) = Mask(nt.IP, nt.ones)

\* The dhcpstart value of the -netdev argument the host network's
\* configurator appended: what stands between ",dhcpstart=" and ",ipv6=off".
EmittedDHCPStart ==
    LET a == hostnet.opts[1].QEMUArgs
        s == a[Len(a)]
        i == CHOOSE i \in 1..Len(s) : s[i] = ",dhcpstart="
    IN  SubSeq(s, i + 1, Len(s) - 1)

\* C39: the dhcpstart value the configurator of IPv4HostNetwork emits is
\* the network's base address plus 8, carried across the bytes as a number
\* of 32 bits, and it is an address of the network, whatever IPv4 network
\* was given, those of fewer than nine addresses included.
C39_DHCPStartInsideNetwork ==
    (hostnet.pc = "configured" /\ hostnet.err = Nil) =>
        LET nt == hostnet.fn[1].ipnet
        IN  /\ EmittedDHCPStart = IPString(IPPlus(nt.IP, DHCPStartN))
            /\ InNetwork(nt, IPPlus(nt.IP, DHCPStartN))

\* The emitted value is the base address plus 8 whenever the configurator
\* emits an address.
DHCPStartPlusEightUnlessNil ==
    (hostnet.pc = "configured" /\ hostnet.err = Nil
       /\ EmittedDHCPStart # <<"<nil>">>) =>
        EmittedDHCPStart = IPString(IPPlus(hostnet.fn[1].ipnet.IP, DHCPStartN))

====
